---- MODULE Spec2Model ----
(***************************************************************************)
(* Model of the watcher collection cycle: Scheduler.collect and the code  *)
(* it calls (watcher_scheduler.py, watcher_utility.py, watcher_requests.py,*)
(* watcher_database.py) and of the wiring of watcher.py that starts it.    *)
(*                                                                         *)
(* Units.  The program computes with floats rounded to two decimals.  The  *)
(* model keeps the same values as integers:                                *)
(*   money (buy_cost, cur_cost, gas_price)   in cents,                     *)
(*   prices (buy_price, cur_price)           in mills (1/1000 USD),        *)
(*   percentages (pnl_percent, pnl_delta, report limits) in hundredths.    *)
(* A Python value that may be None is a sequence of length 0 or 1; so are  *)
(* the values read from the configuration and from the provider's JSON,    *)
(* which the program receives untyped.  A dict is a record, a key the dict *)
(* lacks is a field the record lacks.                                      *)
(***************************************************************************)
EXTENDS Integers, Sequences, FiniteSets, TLC

VARIABLES
    config,     \* the Config object: token (holdings), report_min_lim, report_max_lim
    store,      \* the 'data' collection: the snapshots, in insertion order
    clock,      \* epoch seconds
    main,       \* position of run_main_loop
    cyc,        \* the executions of Scheduler.collect, one record per slot
    started,    \* number of executions of collect started so far
    dropped,    \* 1 once the scheduler has skipped a trigger
    stored,     \* the 'token' list of the document 'tokens' of the config collection
    bot,        \* the Telegram bot: the last command handled and what it answered
    pnlIn,      \* get_pnl check: the arguments
    pnlOut,     \* get_pnl check: the result
    joinIn,     \* join check: token_data, the raw payloads
    chainOut,   \* join check: the result of merge_chain_addr
    joinOut,    \* join check: the result of merge_data
    loopIn,     \* loop check: merged_data and the latest snapshot
    loopOut,    \* loop check: the lists tokens and report after the loop
    fetchIn,    \* fetch check: the chain mapping and the result of each chain's request
    fetchOut,   \* fetch check: the result of get_token_data
    req,        \* make_request check: the call
    gasIn,      \* get_gas_price check: the results of its two queries
    gasOut,     \* get_gas_price check: the result
    twin,       \* restart check: a second run of the program, restarted between cycles
    gather,     \* gather check: the per-chain requests of one call of get_token_data
    sendlog     \* send check: what the execution of collect that returned last left behind

\* the variables of the checks of single functions
funVars == <<pnlIn, pnlOut, joinIn, chainOut, joinOut, loopIn, loopOut, fetchIn, fetchOut, req,
            gasIn, gasOut, gather, sendlog>>

\* the variables the collection cycle leaves alone
callVars == <<funVars, twin>>

\* the variables of the collection cycle
cycleVars == <<config, store, clock, main, cyc, started, dropped, stored, bot>>

vars == <<cycleVars, callVars>>

None == << >>
Some(x) == <<x>>

----------------------------------------------------------------------------
(* Bounds of the model *)

MaxCycles == 3      \* executions of collect per behaviour
MaxSlots == 2       \* executions of collect the model can hold at once
MaxCost == 12       \* get_pnl check: costs range over -MaxCost..MaxCost cents
MaxPayloads == 2    \* join check: raw payloads per call
MaxEntries == 2     \* loop check: joined entries per call
MaxRetries == 5     \* make_request check: the argument retries ranges over 0..MaxRetries

Slots == 1..MaxSlots

----------------------------------------------------------------------------
(* Arithmetic *)

Abs(x) == IF x < 0 THEN -x ELSE x

\* n/d rounded to the nearest integer, ties to even (Python round on an exact
\* value); d > 0.  On a decimal tie Python rounds the binary float, which may
\* fall on either side; the quantities, prices and costs of this model produce
\* no tie.
RoundDivPos(n, d) ==
    LET q == n \div d
        r == n - q * d
    IN  IF 2 * r < d THEN q
        ELSE IF 2 * r > d THEN q + 1
        ELSE IF q % 2 = 0 THEN q ELSE q + 1

RoundDiv(n, d) == IF d > 0 THEN RoundDivPos(n, d) ELSE RoundDivPos(-n, -d)

\* round(quantity * price, 2): quantity in units, price in mills, result in cents
Cost(quantity, price) == RoundDiv(quantity * price, 10)

----------------------------------------------------------------------------
(* watcher_utility.get_pnl *)

\* get_pnl with its two tests in the other order
get_pnl_trace_swapped(cur_cost, buy_cost) ==
    IF buy_cost = 0
    THEN [branch |-> "except", value |-> 0]
    ELSE LET pnl_percent == RoundDiv(cur_cost * 10000, buy_cost)
         IN  IF pnl_percent < 0
             THEN [branch |-> "lt0", value |-> Abs(pnl_percent) - 10000]
             ELSE IF pnl_percent < 10000
             THEN [branch |-> "lt100", value |-> pnl_percent - 10000]
             ELSE [branch |-> "none", value |-> pnl_percent]

\* The branch get_pnl takes and the value it returns.
get_pnl_trace(cur_cost, buy_cost) ==
    IF buy_cost = 0
    THEN [branch |-> "except", value |-> 0]
    ELSE LET pnl_percent == RoundDiv(cur_cost * 10000, buy_cost)
         IN  IF pnl_percent < 10000
             THEN [branch |-> "lt100", value |-> pnl_percent - 10000]
             ELSE IF pnl_percent < 0
             THEN [branch |-> "lt0", value |-> Abs(pnl_percent) - 10000]
             ELSE [branch |-> "none", value |-> pnl_percent]

get_pnl(cur_cost, buy_cost) == get_pnl_trace(cur_cost, buy_cost).value

----------------------------------------------------------------------------
(* Configuration: Config.token, report_min_lim, report_max_lim *)

\* one item of Config.token (lines 225-231 of watcher_config.py)
Holding(name, chain, address, buy_price, quantity) ==
    [name |-> name, chain |-> chain, address |-> address,
     buy_price |-> buy_price, quantity |-> quantity]

Holdings ==
    << Holding("X", "eth", "0x1", Some(1000), Some(100)),
       Holding("Y", "eth", "0x2", Some(10),   Some(3)),
       Holding("Z", "bsc", "0xz", Some(4),    Some(1)) >>

\* what init_config can have loaded from the config collection
Configs ==
    { [token |-> t, report_min_lim |-> -1000, report_max_lim |-> 1000] :
        t \in {Holdings, << >>} }

\* str.lower on the addresses of the model
Lower(a) ==
    CASE a = "0xZ"  -> "0xz"
      [] a = "0xAA" -> "0xaa"
      [] OTHER      -> a

----------------------------------------------------------------------------
(* The market-data provider: what it quotes for an address in one cycle *)

ProviderPrice(address) ==
    CASE address = "0x1" -> {None, Some(0), Some(900), Some(950), Some(1500)}
      [] address = "0x2" -> {None, Some(1), Some(1500)}
      [] address = "0xt" -> {None, Some(800), Some(850), Some(900), Some(950), Some(1050)}
      [] OTHER           -> {None, Some(1500)}

AllQuotes(addresses) == UNION {ProviderPrice(a) : a \in addresses}

Quotes(addresses) ==
    { q \in [addresses -> AllQuotes(addresses)] : \A a \in addresses : q[a] \in ProviderPrice(a) }

\* dict.get(key) and dict.get(key, default)
Get(d, key) == IF key \in DOMAIN d THEN d[key] ELSE None

GetOr(d, key, default) == IF key \in DOMAIN d THEN d[key] ELSE default

\* the empty dict
EmptyDict == << >>

\* one raw payload of the provider, all its fields present
Payload(address, price) ==
    [attributes |-> Some([address    |-> Some(address),
                          decimals   |-> Some(18),
                          price_usd  |-> Some(price),
                          fdv_usd    |-> Some(1000000),
                          volume_usd |-> Some([h24 |-> Some(500000)])])]

----------------------------------------------------------------------------
(* Scheduler.merge_chain_addr, Requests.get_token_data, Scheduler.merge_data *)

RECURSIVE merge_chain_addr_loop(_, _)
merge_chain_addr_loop(token, chain_addr) ==
    IF token = << >> THEN chain_addr
    ELSE LET item == Head(token)
             at == {k \in DOMAIN chain_addr : chain_addr[k].chain = item.chain}
         IN  IF at = {}
             THEN merge_chain_addr_loop(Tail(token),
                      Append(chain_addr, [chain |-> item.chain, addresses |-> <<item.address>>]))
             ELSE LET k == CHOOSE k \in at : TRUE
                  IN  merge_chain_addr_loop(Tail(token),
                          [chain_addr EXCEPT ![k].addresses = Append(@, item.address)])

\* the dict chain -> addresses, as the sequence of its items in insertion order
merge_chain_addr(cfg) == merge_chain_addr_loop(cfg.token, << >>)

RECURSIVE ChainData(_, _)
\* the 'data' array of one chain's response: the quoted addresses, in request order
ChainData(addresses, q) ==
    IF addresses = << >> THEN << >>
    ELSE LET a == Head(addresses)
         IN  (IF q[a] = None THEN << >> ELSE <<Payload(a, q[a][1])>>)
             \o ChainData(Tail(addresses), q)

\* the JSON of one chain's response
Response(addresses, q) == [data |-> ChainData(addresses, q)]

\* what asyncio.gather(..., return_exceptions=True) holds for one task: the
\* exception the task raised, or the value make_request returned (None, or the
\* JSON of the response)
TaskRaised == [raised |-> TRUE, value |-> None]

TaskReturned(value) == [raised |-> FALSE, value |-> value]

\* every chain's request answered
Responses(chain_addr, q) ==
    [k \in DOMAIN chain_addr |-> TaskReturned(Some(Response(chain_addr[k].addresses, q)))]

\* 'elif response': the value is neither None nor an empty dict
Truthy(value) == value # None /\ value[1] # EmptyDict

RECURSIVE get_token_data_failfast(_, _)
\* the call with gather's return_exceptions left out: the exception of a task
\* reaches the handler of line 144 and nothing is returned for any chain
get_token_data_failfast(chain_addr, responses) ==
    IF \E k \in DOMAIN responses : responses[k].raised THEN << >>
    ELSE IF responses = << >> THEN << >>
    ELSE LET response == Head(responses)
         IN  (IF Truthy(response.value) THEN GetOr(response.value[1], "data", << >>)
              ELSE << >>)
             \o get_token_data_failfast(Tail(chain_addr), Tail(responses))

RECURSIVE get_token_data(_, _)
\* lines 122-141 for a chain mapping: one request per chain, gathered; responses[k]
\* is what gather holds for the k-th chain; the 'data' arrays of the responses,
\* flattened in the order of the chains
get_token_data(chain_addr, responses) ==
    IF responses = << >> THEN << >>
    ELSE LET response == Head(responses)
         IN  (IF response.raised THEN << >>
              ELSE IF Truthy(response.value) THEN GetOr(response.value[1], "data", << >>)
              ELSE << >>)
             \o get_token_data(Tail(chain_addr), Tail(responses))

RequestedAddresses(chain_addr) ==
    UNION { {chain_addr[k].addresses[j] : j \in DOMAIN chain_addr[k].addresses} :
              k \in DOMAIN chain_addr }

RECURSIVE parse_token_data_loop(_, _)
\* lines 22-37: the try statement encloses the for loop, so an exception in one
\* iteration (attributes or volume_usd is None: None has no method get) ends the
\* loop, and the payloads parsed before it are returned
parse_token_data_loop(token_data, parsed_data) ==
    IF token_data = << >> THEN parsed_data
    ELSE LET token == Head(token_data)
             attributes == GetOr(token, "attributes", Some(EmptyDict))
         IN  IF attributes = None THEN parsed_data
             ELSE LET volume_usd == GetOr(attributes[1], "volume_usd", Some(EmptyDict))
                  IN  IF volume_usd = None THEN parsed_data
                      ELSE parse_token_data_loop(Tail(token_data),
                               Append(parsed_data,
                                      [address    |-> Get(attributes[1], "address"),
                                       decimals   |-> Get(attributes[1], "decimals"),
                                       price_usd  |-> Get(attributes[1], "price_usd"),
                                       fdv_usd    |-> Get(attributes[1], "fdv_usd"),
                                       volume_usd |-> Get(volume_usd[1], "h24")]))

parse_token_data(token_data) == parse_token_data_loop(token_data, << >>)

\* token_dict[address]: the last holding with that lowercased address
TokenDictIndex(token, address) ==
    LET at == {i \in DOMAIN token : Lower(token[i].address) = address}
    IN  IF at = {} THEN 0 ELSE CHOOSE i \in at : \A j \in at : j <= i

\* lines 68-81 when every parsed address is a string
merge_data_loop(cfg, parsed_token_data) ==
    LET found == SelectSeq(parsed_token_data,
                           LAMBDA t : TokenDictIndex(cfg.token, Lower(t.address[1])) # 0)
    IN  [k \in DOMAIN found |->
            LET token == found[k]
                db_token == cfg.token[TokenDictIndex(cfg.token, Lower(token.address[1]))]
            IN  [name      |-> db_token.name,
                 decimals  |-> token.decimals,
                 mktcap    |-> token.fdv_usd,
                 volume    |-> token.volume_usd,
                 quantity  |-> db_token.quantity,
                 buy_price |-> db_token.buy_price,
                 cur_price |-> token.price_usd]]

\* lines 61-86: token['address'].lower() of line 69 raises when the address is
\* None, and the handler of line 84 returns the empty list for the whole call
merge_data(cfg, token_data) ==
    LET parsed_token_data == parse_token_data(token_data)
    IN  IF \E k \in DOMAIN parsed_token_data : parsed_token_data[k].address = None
        THEN << >>
        ELSE merge_data_loop(cfg, parsed_token_data)

----------------------------------------------------------------------------
(* DatabaseOperations *)

\* the sort ascending: the oldest snapshot
get_latest_entry_ascending(db) ==
    IF db = << >> THEN None
    ELSE LET k == CHOOSE k \in DOMAIN db : \A j \in DOMAIN db : db[k].datetime <= db[j].datetime
         IN  Some(db[k])

\* find_one(sort=[("datetime", -1)]): a snapshot of greatest datetime, or None
get_latest_entry(db) ==
    IF db = << >> THEN None
    ELSE LET k == CHOOSE k \in DOMAIN db : \A j \in DOMAIN db : db[j].datetime <= db[k].datetime
         IN  Some(db[k])

\* a store that keeps the newest snapshot only
add_entry_replace(db, entry) == <<entry>>

\* insert_one
add_entry(db, entry) == Append(db, entry)

----------------------------------------------------------------------------
(* Scheduler.collect: the body of the loop over merged_data (lines 107-175) *)

\* float(v) returns a number: v is a number or numeric text.  float(None) raises
\* TypeError and float of other text raises ValueError; the handlers of lines
\* 170-175 catch both alike, and the model has the one value None for the values
\* float() rejects.
IsFloat(v) == v # None

Float(v) == v[1]

\* the cost guards left out
InvalidCostNever(cost) == FALSE

\* 'if not buy_cost' / 'if not cur_cost'
InvalidCost(cost) == cost = 0

\* next(token for token in latest['tokens'] if token['name'] == name, None)
FindToken(tokens, name) ==
    LET at == {k \in DOMAIN tokens : tokens[k].name = name}
    IN  IF at = {} THEN None
        ELSE Some(tokens[CHOOSE k \in at : \A j \in at : k <= j])

\* the delta of this cycle alone, the previous pnl_delta not carried over
AccumulatedDeltaNoCarry(latest_entry, pnl_percent) ==
    pnl_percent - latest_entry.pnl_percent

\* accumulated_delta before the threshold test (lines 143-148)
AccumulatedDelta(latest_entry, pnl_percent) ==
    LET pnl_delta == pnl_percent - latest_entry.pnl_percent
    IN  IF "pnl_delta" \in DOMAIN latest_entry
        THEN latest_entry.pnl_delta + pnl_delta
        ELSE pnl_delta

\* the threshold test with the lower limit forgotten
OverLimitMaxOnly(accumulated_delta, cfg) ==
    accumulated_delta > cfg.report_max_lim

\* a limit reached counts as a limit passed
OverLimitInclusive(accumulated_delta, cfg) ==
    \/ accumulated_delta >= cfg.report_max_lim
    \/ accumulated_delta <= cfg.report_min_lim

\* the threshold test of line 150
OverLimit(accumulated_delta, cfg) ==
    \/ accumulated_delta > cfg.report_max_lim
    \/ accumulated_delta < cfg.report_min_lim

\* the entry as it stands at line 135
\* (quantity, mktcap and volume converted by lines 109-113, the other joined
\* fields as they came)
PricedEntry(entry, buy_cost, cur_cost, pnl_percent) ==
    [name |-> entry.name, decimals |-> entry.decimals, mktcap |-> Float(entry.mktcap),
     volume |-> Float(entry.volume), quantity |-> Float(entry.quantity),
     buy_price |-> entry.buy_price, cur_price |-> entry.cur_price,
     buy_cost |-> buy_cost, cur_cost |-> cur_cost,
     pnl_percent |-> pnl_percent, pnl_delta |-> pnl_percent]

\* last_pnl_percent taken from the entry itself
TrackedEntryLastIsCurrent(e, last_pnl_percent, pnl_delta) ==
    [name |-> e.name, decimals |-> e.decimals, mktcap |-> e.mktcap,
     volume |-> e.volume, quantity |-> e.quantity, buy_price |-> e.buy_price,
     cur_price |-> e.cur_price, buy_cost |-> e.buy_cost, cur_cost |-> e.cur_cost,
     pnl_percent |-> e.pnl_percent, pnl_delta |-> pnl_delta,
     last_pnl_percent |-> e.pnl_percent]

\* the entry with entry['last_pnl_percent'] and entry['pnl_delta'] set
TrackedEntry(e, last_pnl_percent, pnl_delta) ==
    [name |-> e.name, decimals |-> e.decimals, mktcap |-> e.mktcap,
     volume |-> e.volume, quantity |-> e.quantity, buy_price |-> e.buy_price,
     cur_price |-> e.cur_price, buy_cost |-> e.buy_cost, cur_cost |-> e.cur_cost,
     pnl_percent |-> e.pnl_percent, pnl_delta |-> pnl_delta,
     last_pnl_percent |-> last_pnl_percent]

\* the iteration ends without an entry: a 'continue' of lines 116-132, or an
\* exception caught by the handlers of lines 170-175
Skipped == [kept |-> FALSE, entry |-> None, report |-> << >>]

\* the name of a holding whose stored item has no key 'name': item.get("name") is
\* None (line 225 of watcher_config.py).  The names of the model are strings, and
\* this string stands for None.
NoName == "None"

\* f"{entry['name']:<8}" of line 159 returns: format(None, '<8') raises TypeError
Formats(name) == name # NoName

\* lines 137-166, for an entry with its costs and pnl_percent set.  The
\* logger.info call of lines 158-163 comes after report.append (line 153) and
\* before tokens.append (line 168): when it raises, the handler of line 174 ends
\* the iteration with the report item kept and no entry.
TrackEntry(e, latest, cfg) ==
    IF latest # None
    THEN LET latest_entry == FindToken(latest[1].tokens, e.name)
         IN  IF latest_entry # None
             THEN IF "pnl_percent" \notin DOMAIN latest_entry[1]
                  THEN Skipped      \* KeyError at line 141
                  ELSE
                  LET accumulated_delta == AccumulatedDelta(latest_entry[1], e.pnl_percent)
                      last == latest_entry[1].pnl_percent
                  IN  IF OverLimit(accumulated_delta, cfg)
                      THEN [kept |-> Formats(e.name),
                            entry |-> IF Formats(e.name) THEN Some(TrackedEntry(e, last, 0))
                                      ELSE None,
                            report |-> <<TrackedEntry(e, last, accumulated_delta)>>]
                      ELSE [kept |-> Formats(e.name),
                            entry |-> IF Formats(e.name)
                                      THEN Some(TrackedEntry(e, last, accumulated_delta))
                                      ELSE None,
                            report |-> << >>]
             ELSE [kept |-> TRUE, entry |-> Some(e), report |-> << >>]
    ELSE [kept |-> TRUE, entry |-> Some(e), report |-> <<e>>]

\* one iteration of the loop: lines 108-175
ProcessEntry(entry, latest, cfg) ==
    IF ~IsFloat(entry.quantity) THEN Skipped                \* line 109 raises
    ELSE IF ~IsFloat(entry.mktcap) THEN Skipped             \* line 112 raises
    ELSE IF ~IsFloat(entry.volume) THEN Skipped             \* line 113 raises
    ELSE IF ~IsFloat(entry.buy_price) THEN Skipped          \* line 115 raises
    ELSE LET buy_cost == Cost(Float(entry.quantity), Float(entry.buy_price))
         IN  IF InvalidCost(buy_cost) THEN Skipped
             ELSE IF ~IsFloat(entry.cur_price) THEN Skipped \* line 122 raises
             ELSE LET cur_cost == Cost(Float(entry.quantity), Float(entry.cur_price))
                  IN  IF InvalidCost(cur_cost) THEN Skipped
                      ELSE TrackEntry(PricedEntry(entry, buy_cost, cur_cost,
                                                  get_pnl(cur_cost, buy_cost)),
                                      latest, cfg)

RECURSIVE CollectLoopAborting(_, _, _, _, _)
\* the loop with the try statement around it: the first iteration that yields no
\* entry ends the loop
CollectLoopAborting(merged_data, latest, cfg, tokens, report) ==
    IF merged_data = << >> THEN [tokens |-> tokens, report |-> report]
    ELSE LET r == ProcessEntry(Head(merged_data), latest, cfg)
         IN  IF r.kept
             THEN CollectLoopAborting(Tail(merged_data), latest, cfg,
                                      tokens \o r.entry, report \o r.report)
             ELSE [tokens |-> tokens, report |-> report]

RECURSIVE CollectLoop(_, _, _, _, _)
\* the loop: the lists tokens and report after it
CollectLoop(merged_data, latest, cfg, tokens, report) ==
    IF merged_data = << >> THEN [tokens |-> tokens, report |-> report]
    ELSE LET r == ProcessEntry(Head(merged_data), latest, cfg)
         IN  CollectLoop(Tail(merged_data), latest, cfg,
                         IF r.kept THEN tokens \o r.entry ELSE tokens,
                         report \o r.report)

----------------------------------------------------------------------------
(* The executions of Scheduler.collect *)

\* the cost of a plain transfer, 21000 gas
get_gas_price_transfer(gwei, price) == RoundDiv(gwei * price * 21, 10000)

\* Requests.get_gas_price when both queries succeed:
\* round(gwei * 356190 * 0.000000001 * price, 2), in cents, for price in USD
get_gas_price(gwei, price) == RoundDiv(gwei * price * 35619, 1000000)

\* the gas oracle's FastGasPrice and the reference token's price_usd
GasPriceUsd == get_gas_price(30, 2000)

\* the list get_token_data(config) returns when the oracle answers: the response
\* of the oracle, its result carrying FastGasPrice (lines 137-141 of
\* watcher_requests.py)
GasOracle(fast) == <<[result |-> Some([FastGasPrice |-> fast])]>>

\* the list get_token_data(config, entry) returns for the reference token
RefToken(price) == <<[attributes |-> Some([price_usd |-> price])]>>

\* lines 152-159: the gwei of the oracle's answer, or None where get_gas_price
\* returns None (lines 154-156) or its handler does (a call that raised or
\* returned None, a result that is no dict, a value float() rejects).
\* gas_data_list is None for a call of get_token_data that raised or returned
\* None, Some(list) otherwise.
FastGasPrice(gas_data_list) ==
    IF gas_data_list = None \/ gas_data_list[1] = << >> THEN None
    ELSE LET first == gas_data_list[1][1]
         IN  IF "result" \notin DOMAIN first THEN None
             ELSE IF first.result = None THEN None
             ELSE IF "FastGasPrice" \notin DOMAIN first.result[1] THEN None
             ELSE first.result[1].FastGasPrice

\* lines 165-176: the price of the reference token, or None where get_gas_price
\* returns None (lines 167-169) or its handler does
ReferencePrice(token_data_list) ==
    IF token_data_list = None \/ token_data_list[1] = << >> THEN None
    ELSE LET token_data == token_data_list[1][1]
         IN  IF token_data = EmptyDict \/ "attributes" \notin DOMAIN token_data THEN None
             ELSE IF token_data.attributes = None THEN None
             ELSE IF "price_usd" \notin DOMAIN token_data.attributes[1] THEN None
             ELSE token_data.attributes[1].price_usd

\* a get_gas_price whose failure leaves the cycle's initial 0.0
get_gas_price_zero(gas_data_list, token_data_list) ==
    IF FastGasPrice(gas_data_list) = None \/ ReferencePrice(token_data_list) = None
    THEN Some(0)
    ELSE Some(get_gas_price(Float(FastGasPrice(gas_data_list)),
                            Float(ReferencePrice(token_data_list))))

\* Requests.get_gas_price, lines 148-183, on the results of its two queries: the
\* price in cents, or None
get_gas_price_call(gas_data_list, token_data_list) ==
    IF FastGasPrice(gas_data_list) = None \/ ReferencePrice(token_data_list) = None
    THEN None
    ELSE Some(get_gas_price(Float(FastGasPrice(gas_data_list)),
                            Float(ReferencePrice(token_data_list))))

\* what the two queries of one cycle's get_gas_price give: both answer, the
\* oracle's request fails, the oracle's payload lacks the expected keys
CycleGasData ==
    { [gas_data_list |-> Some(GasOracle(Some(30))), token_data_list |-> Some(RefToken(Some(2000)))],
      [gas_data_list |-> Some(<< >>), token_data_list |-> None],
      [gas_data_list |-> Some(<<[message |-> Some("NOTOK")]>>), token_data_list |-> None] }

\* a job allowed two concurrent instances
max_instances_two == 1 + 1

\* the job's max_instances: add_job is called without it, the scheduler's default
max_instances == 1

IdleCycle ==
    [pc |-> "idle", timestamp |-> 0, latest |-> None, merged_data |-> << >>,
     tokens |-> << >>, report |-> << >>, gas_price |-> Some(0),
     outcome |-> "none", exc |-> {}, appended |-> 0, before |-> << >>,
     holdings |-> << >>, read |-> FALSE, requested |-> FALSE, sent |-> 0,
     gas_data |-> << >>]

InFlight == {i \in Slots : cyc[i].pc \notin {"idle", "done"}}

FreeSlot == CHOOSE i \in Slots \ InFlight : \A j \in Slots \ InFlight : i <= j

\* a call of Scheduler.collect starts in slot i; the model records the store and
\* the stored holdings of that moment
Begin(i) ==
    /\ cyc' = [cyc EXCEPT ![i] = [IdleCycle EXCEPT !.pc = "read", !.before = store,
                                                    !.holdings = stored]]
    /\ started' = started + 1

\* collect returns (normally, or from its handler of line 196); the model keeps
\* the lists tokens and report of the finished execution
Return(c, outcome, raisedAt) ==
    [c EXCEPT !.pc = "done", !.outcome = outcome, !.exc = @ \cup raisedAt,
              !.merged_data = << >>, !.gas_data = << >>]

\* the report sent before the snapshot is written
AfterReportFirst(pc) ==
    CASE pc = "read"    -> "fetch"
      [] pc = "fetch"   -> "gas"
      [] pc = "gas"     -> "report"
      [] pc = "report"  -> "persist"
      [] pc = "persist" -> "done"

\* the order of the steps of collect after the latest snapshot is read
After(pc) ==
    CASE pc = "read"    -> "fetch"
      [] pc = "fetch"   -> "gas"
      [] pc = "gas"     -> "persist"
      [] pc = "persist" -> "report"
      [] pc = "report"  -> "done"

\* the execution goes on to its next step, or returns after the last one
Advance(c) ==
    IF After(c.pc) = "done" THEN Return(c, "completed", {})
    ELSE [c EXCEPT !.pc = After(c.pc)]

\* a collector that goes on without holdings
NoHoldingsNever(cfg) == FALSE

\* 'if not config.token' of line 92
NoHoldings(cfg) == cfg.token = << >>

\* lines 91-101: no holdings, or the timestamp and the latest snapshot; the field
\* read records that get_latest_entry was called
CollectRead(i) ==
    /\ cyc[i].pc = "read"
    /\ UNCHANGED <<config, store, main, started, dropped, stored, bot, callVars>>
    /\ IF NoHoldings(config)
       THEN /\ cyc' = [cyc EXCEPT ![i] = Return(@, "noop", {})]
            /\ UNCHANGED clock
       ELSE /\ clock' = clock + 1
            /\ \/ cyc' = [cyc EXCEPT ![i] = Advance([@ EXCEPT !.timestamp = clock',
                                                               !.read = TRUE,
                                                               !.latest = get_latest_entry(store)])]
               \/ cyc' = [cyc EXCEPT ![i] = Return([@ EXCEPT !.timestamp = clock',
                                                             !.read = TRUE],
                                                   "aborted", {"read"})]

\* the merged records being the holdings themselves: the keys written by the loop
\* (lines 110-156) land in config.token
ConfigAfterLoopAliased(cfg, tokens) ==
    [cfg EXCEPT !.token =
        [k \in DOMAIN cfg.token |->
            IF \E n \in DOMAIN tokens : tokens[n].name = cfg.token[k].name
            THEN [cfg.token[k] EXCEPT !.quantity = None]
            ELSE cfg.token[k]]]

\* config after the loop of collect: merge_data builds every merged record as a
\* new dict (lines 72-80) out of values of the holding, so the keys the loop
\* writes (lines 110-156) reach no holding, and no line assigns a threshold
ConfigAfterLoop(cfg, tokens) == cfg

\* lines 103-175: the market data arrive, the join, the loop.  get_token_data can
\* raise: line 120 of watcher_requests.py evaluates Util.get_socks5_url(config)
\* outside the try block, and watcher_requests.py binds no name Util (nor json),
\* so the call raises NameError unless the name is bound in the module; the
\* exception reaches the handler of collect.  The model has both outcomes, the
\* steps after the fetch being reached only when the call returns.  A chain whose
\* request fails gives the token_data of a chain that quotes none of its
\* addresses, which is among the quotes q.
\* The field requested records that the requests to the provider were issued
\* (lines 126-131 of watcher_requests.py); the loop writes the keys of the merged
\* records, and config is what ConfigAfterLoop makes of it.
CollectFetch(i) ==
    /\ cyc[i].pc = "fetch"
    /\ UNCHANGED <<store, clock, main, started, dropped, stored, bot, callVars>>
    /\ LET chain_addr == merge_chain_addr(config)
       IN  \/ \E q \in Quotes(RequestedAddresses(chain_addr)) :
                LET token_data == get_token_data(chain_addr, Responses(chain_addr, q))
                    merged_data == merge_data(config, token_data)
                    r == CollectLoop(merged_data, cyc[i].latest, config, << >>, << >>)
                IN  /\ cyc' = [cyc EXCEPT ![i] = Advance([@ EXCEPT !.merged_data = merged_data,
                                                               !.requested = TRUE,
                                                               !.tokens = r.tokens,
                                                               !.report = r.report])]
                    /\ config' = ConfigAfterLoop(config, r.tokens)
           \/ /\ cyc' = [cyc EXCEPT ![i] = Return(@, "aborted", {"fetch"})]
              /\ UNCHANGED config

\* lines 177-182: get_gas_price returns a price, or None (a query failed, or an
\* exception was caught inside it); the field gas_data keeps what the queries
\* gave until the execution returns
CollectGas(i) ==
    /\ cyc[i].pc = "gas"
    /\ UNCHANGED <<config, store, clock, main, started, dropped, stored, bot, callVars>>
    /\ \E g \in CycleGasData :
          cyc' = [cyc EXCEPT ![i] =
                     Advance([@ EXCEPT !.gas_data = g,
                                       !.gas_price = get_gas_price_call(g.gas_data_list,
                                                                        g.token_data_list)])]

\* the document of lines 185-189
Snapshot(c) == [datetime |-> c.timestamp, gas_price |-> c.gas_price, tokens |-> c.tokens]

\* the snapshot written whatever the number of tokens
HasTokensAlways(c) == TRUE

\* 'if len(tokens) > 0' of line 184
HasTokens(c) == Len(c.tokens) > 0

\* lines 184-191
CollectPersist(i) ==
    /\ cyc[i].pc = "persist"
    /\ UNCHANGED <<config, clock, main, started, dropped, stored, bot, callVars>>
    /\ IF HasTokens(cyc[i])
       THEN \/ /\ store' = add_entry(store, Snapshot(cyc[i]))
               /\ cyc' = [cyc EXCEPT ![i] = Advance([@ EXCEPT !.appended = @ + 1])]
            \/ /\ UNCHANGED store
               /\ cyc' = [cyc EXCEPT ![i] = Return(@, "aborted", {"persist"})]
       ELSE /\ UNCHANGED store
            /\ cyc' = [cyc EXCEPT ![i] = Advance(@)]

\* the number of messages of send_report (lines 110-112 of watcher_requests.py):
\* one send_message per item of the report
send_report(report) == Len(report)

\* lines 193-197: send_report runs to its end, or raises (json.dumps of line 108,
\* asyncio.sleep(config.report_interval) of line 113 of watcher_requests.py)
\* The field sent counts the messages send_report has sent (line 112, one per item
\* of the report): all of them when it runs to its end, none when it raises.
CollectReport(i) ==
    /\ cyc[i].pc = "report"
    /\ UNCHANGED <<config, store, clock, main, started, dropped, stored, bot, callVars>>
    /\ IF Len(cyc[i].report) > 0
       THEN \/ cyc' = [cyc EXCEPT ![i] = Advance([@ EXCEPT !.sent = send_report(cyc[i].report)])]
            \/ cyc' = [cyc EXCEPT ![i] = Return(@, "aborted", {"report"})]
       ELSE cyc' = [cyc EXCEPT ![i] = Advance(@)]

----------------------------------------------------------------------------
(* watcher.py: run_main_loop and the interval job *)

\* line 64: the initial data collection
StartupCollect ==
    /\ main = "init"
    /\ main' = "startup"
    /\ Begin(1)
    /\ UNCHANGED <<config, store, clock, dropped, stored, bot, callVars>>

\* lines 66-77: collect has returned; the bot and the scheduler start
StartScheduler ==
    /\ main = "startup"
    /\ cyc[1].pc = "done"
    /\ main' = "scheduled"
    /\ UNCHANGED <<config, store, clock, cyc, started, dropped, stored, bot, callVars>>

\* the scheduler may start another instance of the job
CanRun(running) == Cardinality(running) < max_instances

\* the interval fires and the job runs
TriggerRun ==
    /\ main = "scheduled"
    /\ started < MaxCycles
    /\ CanRun(InFlight)
    /\ Begin(FreeSlot)
    /\ UNCHANGED <<config, store, clock, main, dropped, stored, bot, callVars>>

\* the interval fires while the job is running: the run is skipped
TriggerSkip ==
    /\ main = "scheduled"
    /\ ~CanRun(InFlight)
    /\ dropped' = 1
    /\ UNCHANGED <<config, store, clock, main, cyc, started, stored, bot, callVars>>

----------------------------------------------------------------------------
(* The specification of the cycle *)

\* the variables of the checks of single functions, at rest
PnlIdle == pnlIn = <<0, 0>> /\ pnlOut = None

JoinIdle == joinIn = << >> /\ chainOut = None /\ joinOut = None

LoopIdle == loopIn = << >> /\ loopOut = None

FetchIdle == fetchIn = << >> /\ fetchOut = None

RequestIdle == req = << >>

GasIdle == gasIn = << >> /\ gasOut = << >>

TwinIdle == twin = << >>

GatherIdle == gather = << >>

SendIdle == sendlog = << >>

\* run_main_loop before line 64: init_config has loaded the stored holdings
Init ==
    /\ config \in Configs
    /\ stored = config.token
    /\ store = << >>
    /\ clock = 0
    /\ main = "init"
    /\ cyc = [i \in Slots |-> IdleCycle]
    /\ started = 0
    /\ dropped = 0
    /\ bot = None
    /\ PnlIdle /\ JoinIdle /\ LoopIdle /\ FetchIdle /\ RequestIdle /\ GasIdle /\ TwinIdle /\ GatherIdle /\ SendIdle

Next ==
    \/ StartupCollect
    \/ StartScheduler
    \/ TriggerRun
    \/ TriggerSkip
    \/ \E i \in Slots : CollectRead(i)
    \/ \E i \in Slots : CollectFetch(i)
    \/ \E i \in Slots : CollectGas(i)
    \/ \E i \in Slots : CollectPersist(i)
    \/ \E i \in Slots : CollectReport(i)

Spec == Init /\ [][Next]_vars

----------------------------------------------------------------------------
(* The specification of the cycle with the stored holdings edited while the   *)
(* program runs.  Config.token is filled by init_config (lines 217-233 of     *)
(* watcher_config.py), which run_main_loop calls once, at line 54 of          *)
(* watcher.py; collect reads config.token and no code reads the document      *)
(* 'tokens' again.                                                            *)

\* the 'token' lists the document 'tokens' can hold
StoredHoldings == {c.token : c \in Configs}

\* the document 'tokens' of the config collection is replaced (by whoever
\* maintains the configuration; the program has no code that writes it)
ChangeStored ==
    /\ \E token \in StoredHoldings \ {stored} : stored' = token
    /\ UNCHANGED <<config, store, clock, main, cyc, started, dropped, bot, callVars>>

NextReload == Next \/ ChangeStored

SpecReload == Init /\ [][NextReload]_vars

----------------------------------------------------------------------------
(* The specification of get_pnl alone: any two costs, then the call *)

Costs == (0 - MaxCost)..MaxCost

ApplyPnl ==
    /\ pnlOut = None
    /\ pnlOut' = Some(get_pnl_trace(pnlIn[1], pnlIn[2]))
    /\ UNCHANGED <<cycleVars, twin, gather, sendlog, pnlIn, joinIn, chainOut, joinOut, loopIn, loopOut,
                   fetchIn, fetchOut, req, gasIn, gasOut>>

\* the variables of the cycle, at rest, for the holdings token
CycleIdle(token) ==
    /\ config = [token |-> token, report_min_lim |-> -1000, report_max_lim |-> 1000]
    /\ stored = token
    /\ store = << >>
    /\ clock = 0
    /\ main = "init"
    /\ cyc = [i \in Slots |-> IdleCycle]
    /\ started = 0
    /\ dropped = 0
    /\ bot = None

InitPnl ==
    /\ CycleIdle(<< >>)
    /\ pnlIn \in Costs \X Costs
    /\ pnlOut = None
    /\ JoinIdle /\ LoopIdle /\ FetchIdle /\ RequestIdle /\ GasIdle /\ TwinIdle /\ GatherIdle /\ SendIdle

NextPnl == ApplyPnl

SpecPnl == InitPnl /\ [][NextPnl]_vars

----------------------------------------------------------------------------
(* The specification of the join alone: holdings and raw payloads, then the   *)
(* calls of merge_chain_addr and merge_data                                   *)

\* holdings whose addresses differ in case only
CaseHoldings ==
    << Holding("A", "eth", "0xAA", Some(1000), Some(100)),
       Holding("B", "eth", "0xaa", Some(10),   Some(3)) >>

JoinHoldings == {Holdings, CaseHoldings}

\* the attributes object of a payload with all its fields
Attributes(address) == Payload(address, 1500).attributes[1]

\* payloads the provider can send: with all their fields, and with an expected
\* field missing or null
RawPayloads ==
    { Payload("0x1", 1500), Payload("0xZ", 1500), Payload("0xAA", 1500), Payload("0x9", 1500),
      \* no key 'attributes'
      EmptyDict,
      \* "attributes": null
      [attributes |-> None],
      \* no key 'address'
      [attributes |-> Some([decimals |-> Some(18), price_usd |-> Some(1500),
                            fdv_usd |-> Some(1000000),
                            volume_usd |-> Some([h24 |-> Some(500000)])])],
      \* "address": null
      [attributes |-> Some([Attributes("0x2") EXCEPT !.address = None])],
      \* "volume_usd": null
      [attributes |-> Some([Attributes("0x2") EXCEPT !.volume_usd = None])],
      \* no key 'volume_usd'
      [attributes |-> Some([address |-> Some("0x2"), decimals |-> Some(18),
                            price_usd |-> Some(1500), fdv_usd |-> Some(1000000)])] }

SeqsUpTo(S, n) == UNION { [1..m -> S] : m \in 0..n }

ApplyMergeChainAddr ==
    /\ chainOut = None
    /\ chainOut' = Some(merge_chain_addr(config))
    /\ UNCHANGED <<cycleVars, twin, gather, sendlog, pnlIn, pnlOut, joinIn, joinOut, loopIn, loopOut,
                   fetchIn, fetchOut, req, gasIn, gasOut>>

ApplyMergeData ==
    /\ joinOut = None
    /\ joinOut' = Some(merge_data(config, joinIn))
    /\ UNCHANGED <<cycleVars, twin, gather, sendlog, pnlIn, pnlOut, joinIn, chainOut, loopIn, loopOut,
                   fetchIn, fetchOut, req, gasIn, gasOut>>

InitJoin ==
    /\ \E token \in JoinHoldings : CycleIdle(token)
    /\ joinIn \in SeqsUpTo(RawPayloads, MaxPayloads)
    /\ chainOut = None
    /\ joinOut = None
    /\ PnlIdle /\ LoopIdle /\ FetchIdle /\ RequestIdle /\ GasIdle /\ TwinIdle /\ GatherIdle /\ SendIdle

NextJoin == ApplyMergeChainAddr \/ ApplyMergeData

SpecJoin == InitJoin /\ [][NextJoin]_vars

----------------------------------------------------------------------------
(* The specification of the loop of collect alone (lines 107-175): joined    *)
(* entries and a latest snapshot, then the loop                               *)

\* a joined entry of holding X or Y as merge_data builds it
Joined(name, quantity, buy_price, cur_price, mktcap, volume) ==
    [name |-> name, decimals |-> Some(18), mktcap |-> mktcap, volume |-> volume,
     quantity |-> quantity, buy_price |-> buy_price, cur_price |-> cur_price]

\* joined entries: with numbers in every field, with a zero cost, and with a
\* field float() rejects
JoinedEntries ==
    { Joined("X", Some(100), Some(1000), Some(1500), Some(1000000), Some(500000)),
      Joined("X", Some(100), Some(1000), Some(950),  Some(1000000), Some(500000)),
      Joined("X", Some(100), Some(1000), Some(900),  Some(1000000), Some(500000)),
      Joined("X", Some(100), Some(1000), Some(800),  Some(1000000), Some(500000)),
      Joined("Y", Some(3),   Some(10),   Some(1500), Some(1000000), Some(500000)),
      Joined("Y", Some(3),   Some(10),   Some(1),    Some(1000000), Some(500000)),
      Joined("X", None,      Some(1000), Some(1500), Some(1000000), Some(500000)),
      Joined("X", Some(100), None,       Some(1500), Some(1000000), Some(500000)),
      Joined("X", Some(100), Some(1000), None,       Some(1000000), Some(500000)),
      Joined("Y", Some(3),   Some(10),   Some(1500), None,          Some(500000)),
      Joined("Y", Some(3),   Some(10),   Some(1500), Some(1000000), None) }

\* the tokens of a snapshot the program wrote: X at 0.9 and Y at 1.5, no prior
WrittenTokens ==
    CollectLoop(<< Joined("X", Some(100), Some(1000), Some(900),  Some(1000000), Some(500000)),
                   Joined("Y", Some(3),   Some(10),   Some(1500), Some(1000000), Some(500000)) >>,
                None, [token |-> Holdings, report_min_lim |-> -1000, report_max_lim |-> 1000],
                << >>, << >>).tokens

\* the tokens of the snapshot the program wrote next: X at 0.8 (reported, its
\* pnl_delta reset) and Y at 1.5
RewrittenTokens ==
    CollectLoop(<< Joined("X", Some(100), Some(1000), Some(800),  Some(1000000), Some(500000)),
                   Joined("Y", Some(3),   Some(10),   Some(1500), Some(1000000), Some(500000)) >>,
                Some([datetime |-> 1, gas_price |-> Some(GasPriceUsd), tokens |-> WrittenTokens]),
                [token |-> Holdings, report_min_lim |-> -1000, report_max_lim |-> 1000],
                << >>, << >>).tokens

\* latest snapshots: none, two the program wrote, and one whose entry of X has
\* no key 'pnl_percent' (a document the program did not write)
LatestSnapshots ==
    { None,
      Some([datetime |-> 1, gas_price |-> Some(GasPriceUsd), tokens |-> WrittenTokens]),
      Some([datetime |-> 2, gas_price |-> Some(GasPriceUsd), tokens |-> RewrittenTokens]),
      Some([datetime |-> 1, gas_price |-> Some(GasPriceUsd),
            tokens |-> << [name |-> "X", pnl_delta |-> 0], WrittenTokens[2] >>]) }

ApplyLoop ==
    /\ loopOut = None
    /\ loopOut' = Some(CollectLoop(loopIn.merged_data, loopIn.latest, config, << >>, << >>))
    /\ UNCHANGED <<cycleVars, twin, gather, sendlog, pnlIn, pnlOut, joinIn, chainOut, joinOut, loopIn,
                   fetchIn, fetchOut, req, gasIn, gasOut>>

InitLoop ==
    /\ CycleIdle(Holdings)
    /\ loopIn \in [merged_data : SeqsUpTo(JoinedEntries, MaxEntries), latest : LatestSnapshots]
    /\ loopOut = None
    /\ PnlIdle /\ JoinIdle /\ FetchIdle /\ RequestIdle /\ GasIdle /\ TwinIdle /\ GatherIdle /\ SendIdle

NextLoop == ApplyLoop

SpecLoop == InitLoop /\ [][NextLoop]_vars

----------------------------------------------------------------------------
(* The specification of Requests.get_token_data alone (lines 118-146): a      *)
(* chain mapping and what each chain's request ends in, then the call         *)

\* what gather can hold for the request of a chain with these addresses
TaskResults(addresses) ==
    {TaskRaised, TaskReturned(None), TaskReturned(Some(EmptyDict)),
     TaskReturned(Some([errors |-> "rate limit"]))}
    \cup {TaskReturned(Some(Response(addresses, q))) :
             q \in Quotes({addresses[j] : j \in DOMAIN addresses})}

\* the chain mappings of the holdings with one result for each chain
FetchInputs ==
    LET chain_addr == merge_chain_addr([token |-> Holdings])
    IN  { [chain_addr |-> chain_addr, responses |-> r] :
            r \in { r \in [DOMAIN chain_addr ->
                             UNION {TaskResults(chain_addr[k].addresses) : k \in DOMAIN chain_addr}] :
                       \A k \in DOMAIN chain_addr : r[k] \in TaskResults(chain_addr[k].addresses) } }

\* the call returns its list, or raises at line 120 (see CollectFetch)
ApplyFetch ==
    /\ fetchOut = None
    /\ \/ fetchOut' = Some([raised |-> FALSE,
                            value |-> get_token_data(fetchIn.chain_addr, fetchIn.responses)])
       \/ fetchOut' = Some([raised |-> TRUE, value |-> << >>])
    /\ UNCHANGED <<cycleVars, twin, gather, sendlog, pnlIn, pnlOut, joinIn, chainOut, joinOut, loopIn, loopOut,
                   fetchIn, req, gasIn, gasOut>>

InitFetch ==
    /\ CycleIdle(Holdings)
    /\ fetchIn \in FetchInputs
    /\ fetchOut = None
    /\ PnlIdle /\ JoinIdle /\ LoopIdle /\ RequestIdle /\ GasIdle /\ TwinIdle /\ GatherIdle /\ SendIdle

NextFetch == ApplyFetch

SpecFetch == InitFetch /\ [][NextFetch]_vars

----------------------------------------------------------------------------
(* The specification of Requests.make_request alone (lines 18-55): one call,  *)
(* each attempt ending in one of the outcomes the try statement tells apart   *)

\* the default of the parameter delay
InitialDelay == 1

\* raise_for_status raised ClientResponseError with this status
ClientResponseError(status) == [type |-> "ClientResponseError", status |-> status]

\* another exception of the attempt, by the except clause that catches it
Raised(type) == [type |-> type, status |-> 0]

\* the attempt returned the response's JSON
Responded == [type |-> "response", status |-> 200]

\* what one attempt can end in
Outcomes ==
    {Responded}
    \cup {ClientResponseError(status) : status \in {429, 502, 404, 500}}
    \cup {Raised(type) : type \in {"ClientConnectionError", "ClientError",
                                    "TimeoutError", "Exception"}}

\* every HTTP error status taken for a transient one
HandlerRetryAnyStatus(outcome) ==
    CASE outcome.type = "response"            -> "return"
      [] outcome.type = "ClientResponseError" -> "backoff"
      [] outcome.type = "Exception"           -> "break"
      [] OTHER                                -> "continue"

\* a connection or timeout error handled as a transient status is
HandlerBackoffOnError(outcome) ==
    CASE outcome.type = "response"            -> "return"
      [] outcome.type = "ClientResponseError" ->
             IF outcome.status \in {429, 502} THEN "backoff" ELSE "break"
      [] outcome.type = "Exception"           -> "break"
      [] OTHER                                -> "backoff"

\* what the try statement of lines 26-54 does with the outcome of an attempt:
\* return the JSON, sleep and double the delay, leave the loop, or go on
Handler(outcome) ==
    CASE outcome.type = "response"            -> "return"
      [] outcome.type = "ClientResponseError" ->
             IF outcome.status \in {429, 502} THEN "backoff" ELSE "break"
      [] outcome.type = "Exception"           -> "break"
      [] OTHER                                -> "continue"

\* the delay left as it is after the sleep
BackoffSame(delay) == delay

\* 'delay *= 2' of line 42
Backoff(delay) == delay * 2

\* the call at its first attempt (i is the loop variable of line 25); with
\* retries = 0 the loop body never runs and line 55 returns None
Call(retries) ==
    [pc |-> IF retries > 0 THEN "attempt" ELSE "done",
     retries |-> retries, i |-> 0, delay |-> InitialDelay,
     log |-> << >>, slept |-> << >>,
     result |-> IF retries > 0 THEN "pending" ELSE "None"]

\* 'return None' of line 55
ReturnNone(r) == [r EXCEPT !.pc = "done", !.result = "None"]

\* the for statement takes the next value of range(retries), or ends
NextAttempt(r) ==
    IF r.i + 1 < r.retries THEN [r EXCEPT !.pc = "attempt", !.i = @ + 1]
    ELSE ReturnNone(r)

\* lines 26-54: one attempt and the handling of its outcome, up to the sleep
Attempt(outcome) ==
    /\ req # << >>
    /\ req.pc = "attempt"
    /\ LET r == [req EXCEPT !.log = Append(@, outcome)]
           h == Handler(outcome)
       IN  req' = CASE h = "return"   -> [r EXCEPT !.pc = "done", !.result = "json"]
                    [] h = "backoff"  -> [r EXCEPT !.pc = "sleep", !.slept = Append(@, r.delay)]
                    [] h = "break"    -> ReturnNone(r)
                    [] h = "continue" -> NextAttempt(r)
    /\ UNCHANGED <<cycleVars, twin, gather, sendlog, pnlIn, pnlOut, joinIn, chainOut, joinOut, loopIn, loopOut,
                   fetchIn, fetchOut, gasIn, gasOut>>

\* lines 41-42: asyncio.sleep(delay) is over
Wake ==
    /\ req # << >>
    /\ req.pc = "sleep"
    /\ req' = NextAttempt([req EXCEPT !.delay = Backoff(@)])
    /\ UNCHANGED <<cycleVars, twin, gather, sendlog, pnlIn, pnlOut, joinIn, chainOut, joinOut, loopIn, loopOut,
                   fetchIn, fetchOut, gasIn, gasOut>>

InitRequest ==
    /\ CycleIdle(<< >>)
    /\ req \in {Call(retries) : retries \in 0..MaxRetries}
    /\ PnlIdle /\ JoinIdle /\ LoopIdle /\ FetchIdle /\ GasIdle /\ TwinIdle /\ GatherIdle /\ SendIdle

NextRequest == (\E outcome \in Outcomes : Attempt(outcome)) \/ Wake

SpecRequest == InitRequest /\ [][NextRequest]_vars

\* every attempt ends (the session's total timeout raises TimeoutError) and
\* every sleep ends
SpecRequestLive == SpecRequest /\ WF_vars(NextRequest)

----------------------------------------------------------------------------
(* watcher_telegram_bot.py: the commands of the bot, handled while the     *)
(* scheduler runs                                                          *)

\* DatabaseOperations.get_latest_gas_price: the gas price of the latest snapshot,
\* or None
get_latest_gas_price(db) ==
    IF get_latest_entry(db) = None THEN None ELSE get_latest_entry(db)[1].gas_price

\* handle_gas answers with the latest gas price
BotGas ==
    /\ main = "scheduled"
    /\ bot' = Some([command |-> "gas", latest |-> None,
                    gas_price |-> get_latest_gas_price(store)])
    /\ UNCHANGED <<config, store, clock, main, cyc, started, dropped, stored, callVars>>

\* handle_info answers with a report of the latest snapshot, or that there is no
\* data
BotInfo ==
    /\ main = "scheduled"
    /\ bot' = Some([command |-> "info", latest |-> get_latest_entry(store),
                    gas_price |-> None])
    /\ UNCHANGED <<config, store, clock, main, cyc, started, dropped, stored, callVars>>

\* handle_restart runs 'systemctl restart watcher.service': the process ends,
\* whatever it was doing, and run_main_loop starts again (init_config reads the
\* configuration, lines 53-54 of watcher.py); the store is the database's
BotRestart ==
    /\ main = "scheduled"
    /\ started < MaxCycles
    /\ main' = "init"
    /\ cyc' = [i \in Slots |-> IdleCycle]
    /\ config' = [config EXCEPT !.token = stored]
    /\ bot' = None
    /\ UNCHANGED <<store, clock, started, dropped, stored, callVars>>

NextBot == Next \/ BotGas \/ BotInfo \/ BotRestart

\* the program starts with the holding X stored
InitBot ==
    /\ CycleIdle(SubSeq(Holdings, 1, 1))
    /\ PnlIdle /\ JoinIdle /\ LoopIdle /\ FetchIdle /\ RequestIdle /\ GasIdle /\ TwinIdle /\ GatherIdle /\ SendIdle

SpecBot == InitBot /\ [][NextBot]_vars

----------------------------------------------------------------------------
(* The cycle on holdings whose addresses coincide *)

\* two holdings with the same address on different chains
SharedHoldings ==
    << Holding("E", "eth", "0x1", Some(1000), Some(100)),
       Holding("P", "bsc", "0x1", Some(1000), Some(50)) >>

InitShared ==
    /\ \E token \in {SharedHoldings, CaseHoldings} : CycleIdle(token)
    /\ PnlIdle /\ JoinIdle /\ LoopIdle /\ FetchIdle /\ RequestIdle /\ GasIdle /\ TwinIdle /\ GatherIdle /\ SendIdle

SpecShared == InitShared /\ [][Next]_vars

----------------------------------------------------------------------------
(* Two runs of the program on the same inputs, one of them restarted       *)
(* between cycles.  The variables config and store are the run that is     *)
(* never restarted; twin is the other run: its Config object, its store,   *)
(* whether it was restarted since its last cycle.  Each run keeps the      *)
(* report of its last cycle.                                               *)

\* a store kept in the memory of the process
StoreAfterRestartLost(db) == << >>

\* the 'data' collection after the process is restarted: run_main_loop opens the
\* database of the MongoDB server (lines 50-51, 58), which keeps its documents
StoreAfterRestart(db) == db

\* the Config object after a restart: init_config reads the stored configuration
\* again (lines 53-54); the thresholds stored are those of the first start
ConfigAfterRestart(cfg) == [cfg EXCEPT !.token = stored]

\* one execution of collect that no exception aborts, on the Config object cfg, the
\* store db, the clock's time, the quotes q of the provider and the results g of
\* the gas queries: the store and the report after it
RunCycle(cfg, db, time, q, g) ==
    IF NoHoldings(cfg) THEN [store |-> db, report |-> << >>]
    ELSE LET latest == get_latest_entry(db)
             chain_addr == merge_chain_addr(cfg)
             token_data == get_token_data(chain_addr, Responses(chain_addr, q))
             merged_data == merge_data(cfg, token_data)
             r == CollectLoop(merged_data, latest, cfg, << >>, << >>)
             c == [timestamp |-> time, tokens |-> r.tokens,
                   gas_price |-> get_gas_price_call(g.gas_data_list, g.token_data_list)]
         IN  [store |-> IF HasTokens(c) THEN add_entry(db, Snapshot(c)) ELSE db,
              report |-> r.report]

\* the second run is restarted
TwinRestart ==
    /\ ~twin.restarted
    /\ twin' = [twin EXCEPT !.restarted = TRUE,
                            !.restarts = @ + 1,
                            !.config = ConfigAfterRestart(@),
                            !.store = StoreAfterRestart(@)]
    /\ UNCHANGED <<cycleVars, funVars>>

\* both runs execute a cycle at the same time on the same answers
TwinCycle ==
    /\ clock < MaxCycles
    /\ clock' = clock + 1
    /\ \E q \in Quotes(RequestedAddresses(merge_chain_addr(config))), g \in CycleGasData :
          LET one == RunCycle(config, store, clock', q, g)
              two == RunCycle(twin.config, twin.store, clock', q, g)
          IN  /\ store' = one.store
              /\ twin' = [twin EXCEPT !.restarted = FALSE,
                                      !.store = two.store,
                                      !.reports = <<one.report, two.report>>]
    /\ UNCHANGED <<config, main, cyc, started, dropped, stored, bot, funVars>>

\* both runs start with the holding X stored
InitRestart ==
    /\ CycleIdle(SubSeq(Holdings, 1, 1))
    /\ twin = [config |-> config, store |-> << >>, restarted |-> FALSE, restarts |-> 0,
               reports |-> << << >>, << >> >>]
    /\ PnlIdle /\ JoinIdle /\ LoopIdle /\ FetchIdle /\ RequestIdle /\ GasIdle /\ GatherIdle /\ SendIdle

NextRestart == TwinRestart \/ TwinCycle

SpecRestart == InitRestart /\ [][NextRestart]_vars

----------------------------------------------------------------------------
(* Requests.get_gas_price applied to the results of its two queries *)

\* FastGasPrice in gwei and the reference token's price_usd in dollars
Gweis == {1, 12, 30}

Prices == {1, 1500, 2000}

\* what get_token_data(config) can give get_gas_price: it raised or returned None,
\* no response, a response without result, a result that is no dict, a result
\* without FastGasPrice, a FastGasPrice float() rejects, a number
GasDataLists ==
    {None, Some(<< >>), Some(<<EmptyDict>>), Some(<<[result |-> None]>>),
     Some(<<[result |-> Some(EmptyDict)]>>), Some(GasOracle(None))}
    \cup {Some(GasOracle(Some(gwei))) : gwei \in Gweis}

\* what get_token_data(config, entry) can give get_gas_price
TokenDataLists ==
    {None, Some(<< >>), Some(<<EmptyDict>>), Some(<<[attributes |-> None]>>),
     Some(<<[attributes |-> Some(EmptyDict)]>>), Some(RefToken(None))}
    \cup {Some(RefToken(Some(price))) : price \in Prices}

ApplyGasPrice ==
    /\ gasOut = None
    /\ gasOut' = Some(get_gas_price_call(gasIn.gas_data_list, gasIn.token_data_list))
    /\ UNCHANGED <<cycleVars, twin, gather, sendlog, pnlIn, pnlOut, joinIn, chainOut, joinOut, loopIn, loopOut,
                   fetchIn, fetchOut, req, gasIn>>

InitGas ==
    /\ CycleIdle(<< >>)
    /\ gasIn \in [gas_data_list : GasDataLists, token_data_list : TokenDataLists]
    /\ gasOut = None
    /\ PnlIdle /\ JoinIdle /\ LoopIdle /\ FetchIdle /\ RequestIdle /\ TwinIdle /\ GatherIdle /\ SendIdle

NextGas == ApplyGasPrice

SpecGas == InitGas /\ [][NextGas]_vars

----------------------------------------------------------------------------
(* Vocabulary of the properties *)

Names(entries) == {entries[k].name : k \in DOMAIN entries}

\* the loop of execution i has run (its lists tokens and report are final)
Looped(i) ==
    \/ cyc[i].pc \in {"gas", "persist", "report"}
    \/ /\ cyc[i].pc = "done"
       /\ cyc[i].outcome # "noop"
       /\ cyc[i].exc \cap {"read", "fetch"} = {}

\* the loop of execution i has run and i has not returned (merged_data is at hand)
Looping(i) == cyc[i].pc \in {"gas", "persist", "report"}

\* the entry of that name in the snapshot execution i read, or None
Prior(i, name) ==
    IF cyc[i].latest = None THEN None ELSE FindToken(cyc[i].latest[1].tokens, name)

\* the snapshots in the store that execution i wrote
Written(i) == {k \in DOMAIN store : /\ cyc[i].appended > 0
                                    /\ store[k].datetime = cyc[i].timestamp}

\* previous.pnl_delta + (pnl_percent - previous.pnl_percent)
Accumulated(previous, pnl_percent) ==
    previous.pnl_delta + (pnl_percent - previous.pnl_percent)

----------------------------------------------------------------------------
(* C1..C10 *)

\* C1: in every cycle, a processed token with no entry of its name in the latest
\* snapshot (the store is empty, or the snapshot lacks the name) is in the cycle's
\* report and is persisted with pnl_delta = pnl_percent.
C1_NoPriorEntryReported ==
    \A i \in Slots : Looped(i) =>
        \A k \in DOMAIN cyc[i].tokens :
            LET e == cyc[i].tokens[k]
            IN  Prior(i, e.name) = None =>
                    /\ e.name \in Names(cyc[i].report)
                    /\ e.pnl_delta = e.pnl_percent
                    /\ \A w \in Written(i) : store[w].tokens[k].pnl_delta = e.pnl_percent

\* C2: in every cycle the persisted pnl_delta of a token is zero if and only if a
\* report item is emitted for the token in that cycle.
C2_ResetIffEmitted ==
    \A i \in Slots : Looped(i) =>
        \A k \in DOMAIN cyc[i].tokens :
            LET e == cyc[i].tokens[k]
            IN  (e.pnl_delta = 0) <=> (e.name \in Names(cyc[i].report))

\* C3: for a token with a prior entry whose accumulated delta is above
\* report_max_lim or below report_min_lim, the cycle emits a report item with
\* pnl_delta = accumulated and the entry persisted by the cycle has pnl_delta = 0.
C3_ResetOnAlert ==
    \A i \in Slots : Looped(i) =>
        \A k \in DOMAIN cyc[i].tokens :
            LET e == cyc[i].tokens[k]
                p == Prior(i, e.name)
            IN  p # None =>
                  LET accumulated == Accumulated(p[1], e.pnl_percent)
                  IN  (accumulated > config.report_max_lim \/ accumulated < config.report_min_lim) =>
                        /\ \E r \in DOMAIN cyc[i].report :
                              /\ cyc[i].report[r].name = e.name
                              /\ cyc[i].report[r].pnl_delta = accumulated
                        /\ e.pnl_delta = 0
                        /\ \A w \in Written(i) : store[w].tokens[k].pnl_delta = 0

C3_Witness ==
    \E i \in Slots :
        /\ cyc[i].pc = "report"
        /\ Written(i) # {}
        /\ \E k \in DOMAIN cyc[i].tokens :
              /\ Prior(i, cyc[i].tokens[k].name) # None
              /\ Accumulated(Prior(i, cyc[i].tokens[k].name)[1], cyc[i].tokens[k].pnl_percent)
                     < config.report_min_lim
              /\ cyc[i].tokens[k].name \in Names(cyc[i].report)

\* the example of C4: previous pnl_percent 50.0 and pnl_delta 0, pnl_percent 55.0 now
C4_Example ==
    LET e == PricedEntry([name |-> "X", decimals |-> Some(18), mktcap |-> Some(1000000),
                          volume |-> Some(500000), quantity |-> Some(100),
                          buy_price |-> Some(1000), cur_price |-> Some(1550)],
                         10000, 15500, 5500)
        latest == Some([datetime |-> 1, gas_price |-> None,
                        tokens |-> <<[e EXCEPT !.pnl_percent = 5000, !.pnl_delta = 0]>>])
        r == TrackEntry(e, latest, [token |-> Holdings, report_min_lim |-> -1000,
                                    report_max_lim |-> 1000])
    IN  r.kept /\ r.entry[1].pnl_delta = 500 /\ r.report = << >>

\* C4: for a token with a prior entry of pnl_delta d0 and a delta d1 in this cycle,
\* when d0 + d1 is strictly between report_min_lim and report_max_lim the persisted
\* pnl_delta is d0 + d1 and the token is not in the report.
C4_Accumulation ==
    /\ C4_Example
    /\ \A i \in Slots : Looped(i) =>
        \A k \in DOMAIN cyc[i].tokens :
            LET e == cyc[i].tokens[k]
                p == Prior(i, e.name)
            IN  p # None =>
                  LET d0 == p[1].pnl_delta
                      d1 == e.pnl_percent - p[1].pnl_percent
                  IN  (config.report_min_lim < d0 + d1 /\ d0 + d1 < config.report_max_lim) =>
                        /\ e.pnl_delta = d0 + d1
                        /\ e.name \notin Names(cyc[i].report)
                        /\ \A w \in Written(i) : store[w].tokens[k].pnl_delta = d0 + d1

C4_Witness ==
    \E i \in Slots :
        /\ cyc[i].pc = "report"
        /\ Written(i) # {}
        /\ \E k \in DOMAIN cyc[i].tokens :
              LET e == cyc[i].tokens[k]
                  p == Prior(i, e.name)
              IN  /\ p # None
                  /\ p[1].pnl_delta # 0
                  /\ e.pnl_percent # p[1].pnl_percent
                  /\ e.pnl_delta = Accumulated(p[1], e.pnl_percent)
                  /\ e.pnl_delta # 0
                  /\ e.name \notin Names(cyc[i].report)

\* C5: at no time are two executions of collect in flight; a trigger that arrives
\* while one is running is dropped.
C5_AtMostOneInFlight == Cardinality(InFlight) <= 1

C5_Witness == dropped = 1 /\ InFlight # {} /\ started > 1

\* C6: a cycle that completes with at least one valid token entry appends exactly
\* one snapshot, a cycle with no valid entry appends none, and no cycle appends
\* more than one.
C6_OneSnapshotPerCycle ==
    \A i \in Slots :
        /\ cyc[i].appended <= 1
        /\ Cardinality(Written(i)) = cyc[i].appended
        /\ (cyc[i].pc = "done" /\ cyc[i].outcome = "completed") =>
              /\ cyc[i].appended = (IF Len(cyc[i].tokens) > 0 THEN 1 ELSE 0)
              /\ Len(store) = Len(cyc[i].before) + cyc[i].appended

C6_Witness ==
    \E i \in Slots :
        /\ cyc[i].pc = "done"
        /\ cyc[i].outcome = "completed"
        /\ cyc[i].tokens = << >>
        /\ cyc[i].appended = 0
        /\ Len(store) = 1
        /\ store = cyc[i].before

C8_ZeroCostExcluded ==
    \A i \in Slots : Looping(i) =>
        \A m \in DOMAIN cyc[i].merged_data :
            LET entry == cyc[i].merged_data[m]
                zero == \/ Cost(entry.quantity[1], entry.buy_price[1]) = 0
                        \/ Cost(entry.quantity[1], entry.cur_price[1]) = 0
            IN  /\ zero => /\ entry.name \notin Names(cyc[i].tokens)
                           /\ entry.name \notin Names(cyc[i].report)
                           /\ \A w \in Written(i) : entry.name \notin Names(store[w].tokens)
                /\ ~zero => /\ entry.name \in Names(cyc[i].tokens)
                            /\ \A w \in Written(i) : entry.name \in Names(store[w].tokens)

C8_Witness ==
    \E i \in Slots :
        /\ cyc[i].pc = "report"
        /\ Written(i) # {}
        /\ \E m \in DOMAIN cyc[i].merged_data :
              /\ Cost(cyc[i].merged_data[m].quantity[1], cyc[i].merged_data[m].buy_price[1]) = 0
        /\ \E m \in DOMAIN cyc[i].merged_data :
              /\ cyc[i].merged_data[m].cur_price[1] > 0
              /\ Cost(cyc[i].merged_data[m].quantity[1], cyc[i].merged_data[m].buy_price[1]) # 0
              /\ Cost(cyc[i].merged_data[m].quantity[1], cyc[i].merged_data[m].cur_price[1]) = 0
        /\ Names(cyc[i].tokens) = {"X"}

\* C9: holding X (buy_price 1.0, quantity 100), no prior snapshot, price 1.5: the
\* cycle has the entry with buy_cost 100.0, cur_cost 150.0, pnl_percent 50.0 and
\* pnl_delta 50.0, in the report; a token whose cur_cost is at or above its
\* buy_cost gets pnl_percent = round(cur_cost * 100 / buy_cost - 100, 2).
C9_GainScenario ==
    \A i \in Slots : Looping(i) =>
        /\ \A m \in DOMAIN cyc[i].merged_data :
              LET entry == cyc[i].merged_data[m]
              IN  ( /\ cyc[i].latest = None
                    /\ entry.name = "X" /\ entry.buy_price = Some(1000)
                    /\ entry.quantity = Some(100) /\ entry.cur_price = Some(1500) ) =>
                  /\ \E k \in DOMAIN cyc[i].tokens :
                        /\ cyc[i].tokens[k].name = "X"
                        /\ cyc[i].tokens[k].buy_cost = 10000
                        /\ cyc[i].tokens[k].cur_cost = 15000
                        /\ cyc[i].tokens[k].pnl_percent = 5000
                        /\ cyc[i].tokens[k].pnl_delta = 5000
                  /\ "X" \in Names(cyc[i].report)
        /\ \A k \in DOMAIN cyc[i].tokens :
              LET e == cyc[i].tokens[k]
              IN  e.cur_cost >= e.buy_cost =>
                      e.pnl_percent = RoundDiv(e.cur_cost * 10000, e.buy_cost) - 10000

\* C10: get_pnl returns r - 100 when r = round(cur_cost * 100 / buy_cost, 2) is
\* below 100, negative r included, and r when r is 100 or more; the branch
\* 'elif pnl_percent < 0' is never taken.
C10_PnlTransform ==
    pnlOut # None =>
        /\ pnlOut[1].branch # "lt0"
        /\ pnlIn[2] # 0 =>
              LET r == RoundDiv(pnlIn[1] * 10000, pnlIn[2])
              IN  pnlOut[1].value = (IF r < 10000 THEN r - 10000 ELSE r)

C10_Witness ==
    /\ pnlOut # None
    /\ pnlIn[2] # 0
    /\ RoundDiv(pnlIn[1] * 10000, pnlIn[2]) < 0
    /\ pnlOut[1].value = RoundDiv(pnlIn[1] * 10000, pnlIn[2]) - 10000
    /\ pnlOut[1].value < -10000

----------------------------------------------------------------------------
(* Vocabulary of the properties of the join *)

\* the address of a raw payload, None when the payload carries none
RecordAddress(p) ==
    IF "attributes" \notin DOMAIN p THEN None
    ELSE IF p.attributes = None THEN None
    ELSE Get(p.attributes[1], "address")

\* the 24 h volume of an attributes object, None when it carries none
RecordVolume(a) ==
    IF "volume_usd" \notin DOMAIN a THEN None
    ELSE IF a.volume_usd = None THEN None
    ELSE Get(a.volume_usd[1], "h24")

\* the payload has attributes, an address and a volume_usd, none of them null
Complete(p) ==
    /\ RecordAddress(p) # None
    /\ "volume_usd" \in DOMAIN p.attributes[1]
    /\ p.attributes[1].volume_usd # None

\* the holdings whose lowercased address is the lowercased address a
HoldingsAt(token, a) == {i \in DOMAIN token : Lower(token[i].address) = Lower(a)}

\* the payload has an address and a holding has it
Matching(token, p) ==
    /\ RecordAddress(p) # None
    /\ HoldingsAt(token, RecordAddress(p)[1]) # {}

RECURSIVE Distinct(_)
\* the sequence with only the first occurrence of each element
Distinct(seq) ==
    IF seq = << >> THEN << >>
    ELSE LET n == Len(seq)
             front == Distinct(SubSeq(seq, 1, n - 1))
         IN  IF \E j \in 1..(n - 1) : seq[j] = seq[n] THEN front ELSE Append(front, seq[n])

\* the lowercased addresses of the holdings of a chain, in holdings order
LoweredOf(token, chain) ==
    LET of == SelectSeq(token, LAMBDA t : t.chain = chain)
    IN  [k \in DOMAIN of |-> Lower(of[k].address)]

----------------------------------------------------------------------------
(* C11..C20 *)

\* C11: whatever payloads of a call lack an expected field (attributes, address,
\* volume_usd) or have it null, every payload of the call that has them all and
\* whose address is the address of a holding yields a joined entry with that
\* holding's name and the payload's price.
C11_SiblingsStillJoined ==
    joinOut # None =>
        \A k \in DOMAIN joinIn :
            (Complete(joinIn[k]) /\ Matching(config.token, joinIn[k])) =>
                \E m \in DOMAIN joinOut[1] :
                    /\ \E i \in HoldingsAt(config.token, RecordAddress(joinIn[k])[1]) :
                          joinOut[1][m].name = config.token[i].name
                    /\ joinOut[1][m].cur_price = joinIn[k].attributes[1].price_usd

\* an iteration on this entry raises: a field float() rejects (lines 109-122), or
\* the entry of its name in the latest snapshot has no key 'pnl_percent' (line 141)
Fails(entry, latest) ==
    \/ entry.quantity = None
    \/ entry.mktcap = None
    \/ entry.volume = None
    \/ entry.buy_price = None
    \/ entry.cur_price = None
    \/ /\ latest # None
       /\ FindToken(latest[1].tokens, entry.name) # None
       /\ "pnl_percent" \notin DOMAIN FindToken(latest[1].tokens, entry.name)[1]

\* C12: the loop over joined entries of which some raise (a null mktcap, volume,
\* price or quantity, a prior entry without pnl_percent) leaves the lists tokens
\* and report it leaves for the other entries alone: no failed entry is in
\* either list, and every other entry of non-zero costs is in tokens.
C12_FailedEntryAsAbsent ==
    loopOut # None =>
        LET merged_data == loopIn.merged_data
            latest == loopIn.latest
            others == SelectSeq(merged_data, LAMBDA e : ~Fails(e, latest))
        IN  /\ loopOut[1] = CollectLoop(others, latest, config, << >>, << >>)
            /\ Len(loopOut[1].tokens) <= Len(others)
            /\ \A k \in DOMAIN loopOut[1].tokens :
                  \E m \in DOMAIN others : /\ others[m].name = loopOut[1].tokens[k].name
                                            /\ others[m].cur_price = loopOut[1].tokens[k].cur_price
            /\ \A k \in DOMAIN loopOut[1].report :
                  \E m \in DOMAIN others : /\ others[m].name = loopOut[1].report[k].name
                                            /\ others[m].cur_price = loopOut[1].report[k].cur_price
            /\ \A m \in DOMAIN others :
                  ( /\ Cost(others[m].quantity[1], others[m].buy_price[1]) # 0
                    /\ Cost(others[m].quantity[1], others[m].cur_price[1]) # 0 ) =>
                      \E k \in DOMAIN loopOut[1].tokens :
                          /\ loopOut[1].tokens[k].name = others[m].name
                          /\ loopOut[1].tokens[k].cur_price = others[m].cur_price

C12_Witness ==
    /\ loopOut # None
    /\ Len(loopIn.merged_data) = 2
    /\ loopIn.merged_data[1].name = "X"
    /\ loopIn.merged_data[1].quantity # None
    /\ loopIn.merged_data[1].buy_price # None
    /\ loopIn.merged_data[1].cur_price # None
    /\ Fails(loopIn.merged_data[1], loopIn.latest)
    /\ loopIn.merged_data[2].name = "Y"
    /\ ~Fails(loopIn.merged_data[2], loopIn.latest)
    /\ Names(loopOut[1].tokens) = {"Y"}
    /\ Names(loopOut[1].report) = {"Y"}

\* the attempt failed with HTTP status 429 or 502
RetryStatus(outcome) ==
    outcome.type = "ClientResponseError" /\ outcome.status \in {429, 502}

\* the attempt failed with another HTTP error status
OtherStatus(outcome) ==
    outcome.type = "ClientResponseError" /\ outcome.status \notin {429, 502}

\* the attempt failed with a connection or timeout error
TransportError(outcome) ==
    outcome.type \in {"ClientConnectionError", "ClientError", "TimeoutError"}

RetryFailures(log) == Cardinality({j \in DOMAIN log : RetryStatus(log[j])})

RECURSIVE Pow2(_)
Pow2(n) == IF n = 0 THEN 1 ELSE 2 * Pow2(n - 1)

\* C13: a call makes at most retries attempts; it waits once for each attempt
\* that failed with status 429 or 502, the j-th wait lasting InitialDelay *
\* 2^(j-1); and after such a failure it issues another attempt unless the
\* retries attempts are used up.
C13_RetryWithBackoff ==
    req # << >> =>
        /\ Len(req.log) <= req.retries
        /\ Len(req.slept) = RetryFailures(req.log)
        /\ \A j \in DOMAIN req.slept : req.slept[j] = InitialDelay * Pow2(j - 1)
        /\ req.pc = "attempt" => req.i = Len(req.log)
        /\ (req.pc = "done" /\ req.log # << >> /\ RetryStatus(req.log[Len(req.log)])) =>
              Len(req.log) = req.retries

C13_Witness ==
    /\ req # << >>
    /\ req.pc = "done"
    /\ req.retries = 5
    /\ \A j \in DOMAIN req.log : RetryStatus(req.log[j])
    /\ req.slept = <<1, 2, 4, 8, 16>>
    /\ req.result = "None"

\* C14: an attempt that failed with an HTTP error status other than 429 and 502
\* is the last attempt of the call, whatever its number: the call has returned
\* None and has not waited after that attempt.
C14_OtherStatusEndsCall ==
    req # << >> =>
        \A j \in DOMAIN req.log :
            OtherStatus(req.log[j]) =>
                /\ j = Len(req.log)
                /\ req.pc = "done"
                /\ req.result = "None"
                /\ Len(req.slept) = RetryFailures(SubSeq(req.log, 1, j - 1))

C14_Witness ==
    /\ req # << >>
    /\ req.retries = 5
    /\ Len(req.log) = 3
    /\ RetryStatus(req.log[1])
    /\ TransportError(req.log[2])
    /\ OtherStatus(req.log[3])
    /\ req.pc = "done"
    /\ req.slept = <<1>>

\* C15: an attempt that failed with a connection or timeout error is followed by
\* the next attempt (or, the attempts used up, by the return of None) with no
\* wait and the delay unchanged; a call that has returned has returned the JSON
\* of its last attempt or None; and every call returns.
C15_NoWaitAndTermination ==
    /\ [][ ( /\ req # << >>
             /\ req.pc = "attempt"
             /\ Len(req'.log) = Len(req.log) + 1
             /\ TransportError(req'.log[Len(req'.log)]) ) =>
               /\ req'.delay = req.delay
               /\ req'.slept = req.slept
               /\ IF Len(req'.log) < req.retries
                  THEN req'.pc = "attempt" /\ req'.i = req.i + 1
                  ELSE req'.pc = "done" /\ req'.result = "None" ]_vars
    /\ [](req # << >> /\ req.pc = "done" =>
             /\ req.result \in {"json", "None"}
             /\ req.result = "json" <=>
                    (req.log # << >> /\ req.log[Len(req.log)] = Responded))
    /\ <>(req # << >> /\ req.pc = "done")

C15_Witness ==
    /\ req # << >>
    /\ req.pc = "done"
    /\ req.retries = 5
    /\ Len(req.log) = 5
    /\ \A j \in DOMAIN req.log : TransportError(req.log[j])
    /\ req.slept = << >>
    /\ req.delay = InitialDelay
    /\ req.result = "None"

\* the payloads a chain's result contributes: its 'data' array when the request
\* returned a response that has one, nothing when it raised or failed
DataOf(response) ==
    IF response.raised THEN << >>
    ELSE IF response.value = None THEN << >>
    ELSE IF "data" \notin DOMAIN response.value[1] THEN << >>
    ELSE response.value[1].data

\* the payloads of a list whose address is one of the addresses
PayloadsOf(token_data, addresses) ==
    SelectSeq(token_data,
              LAMBDA p : \E j \in DOMAIN addresses : RecordAddress(p) = Some(addresses[j]))

\* C16: a call of get_token_data with a chain mapping that returns, returns for
\* each chain the payloads of that chain's response, in order, and none for a
\* chain whose request raised or failed, whatever the requests of the other
\* chains ended in; it returns nothing else.
C16_FailedChainAlone ==
    (fetchOut # None /\ ~fetchOut[1].raised) =>
        /\ \A k \in DOMAIN fetchIn.chain_addr :
              PayloadsOf(fetchOut[1].value, fetchIn.chain_addr[k].addresses)
                  = DataOf(fetchIn.responses[k])
        /\ \A j \in DOMAIN fetchOut[1].value :
              \E k \in DOMAIN fetchIn.chain_addr :
                  \E n \in DOMAIN DataOf(fetchIn.responses[k]) :
                      DataOf(fetchIn.responses[k])[n] = fetchOut[1].value[j]

C16_Witness ==
    /\ fetchOut # None
    /\ ~fetchOut[1].raised
    /\ Len(fetchIn.responses) = 2
    /\ fetchIn.responses[1].raised
    /\ DataOf(fetchIn.responses[2]) # << >>
    /\ fetchOut[1].value = DataOf(fetchIn.responses[2])

\* C17: merge_chain_addr lists each chain of the holdings once, with the
\* lowercased addresses of its holdings in holdings order, each address once.
C17_LowercasedDistinct ==
    chainOut # None =>
        /\ {chainOut[1][k].chain : k \in DOMAIN chainOut[1]}
              = {config.token[i].chain : i \in DOMAIN config.token}
        /\ \A k \in DOMAIN chainOut[1] :
              chainOut[1][k].addresses = Distinct(LoweredOf(config.token, chainOut[1][k].chain))

\* C18: merge_data returns one entry for each payload whose lowercased address is
\* the lowercased address of a holding, in payload order, and no other entry; the
\* entry has the holding's name, quantity and buy_price and the payload's
\* decimals, price_usd as cur_price, fdv_usd as mktcap and volume_usd as volume.
C18_JoinExactlyMatching ==
    joinOut # None =>
        LET matching == SelectSeq(joinIn, LAMBDA p : Matching(config.token, p))
        IN  /\ Len(joinOut[1]) = Len(matching)
            /\ \A m \in DOMAIN matching :
                  LET e == joinOut[1][m]
                      a == matching[m].attributes[1]
                  IN  /\ \E i \in HoldingsAt(config.token, a.address[1]) :
                            /\ e.name = config.token[i].name
                            /\ e.quantity = config.token[i].quantity
                            /\ e.buy_price = config.token[i].buy_price
                      /\ e.decimals = Get(a, "decimals")
                      /\ e.cur_price = Get(a, "price_usd")
                      /\ e.mktcap = Get(a, "fdv_usd")
                      /\ e.volume = RecordVolume(a)

\* C20: an execution of collect works on the holdings that were stored when it
\* started: it is a no-op exactly when no holding was stored then, and the tokens
\* it tracks are tokens of those holdings.
C20_HoldingsOfCycleStart ==
    \A i \in Slots : cyc[i].pc = "done" =>
        /\ (cyc[i].outcome = "noop") <=> (cyc[i].holdings = << >>)
        /\ Names(cyc[i].tokens) \subseteq Names(cyc[i].holdings)

----------------------------------------------------------------------------
(* C21..C30 *)

C22_NoSendInsideCollect == \A i \in Slots : cyc[i].sent = 0

\* C23: with an empty holdings list an execution of collect returns at once: it
\* takes no timestamp, does not read the store, issues no provider request, writes
\* no snapshot, has an empty report, sends nothing and raises nothing.
C23_EmptyHoldingsNoOp ==
    \A i \in Slots : (config.token = << >> /\ cyc[i].pc # "idle") =>
        /\ cyc[i].pc \in {"read", "done"}
        /\ cyc[i].pc = "done" => cyc[i].outcome = "noop"
        /\ ~cyc[i].read
        /\ ~cyc[i].requested
        /\ cyc[i].timestamp = 0
        /\ cyc[i].appended = 0
        /\ store = cyc[i].before
        /\ clock = 0
        /\ cyc[i].tokens = << >>
        /\ cyc[i].report = << >>
        /\ cyc[i].sent = 0
        /\ cyc[i].exc = {}

C23_Witness ==
    /\ config.token = << >>
    /\ started = MaxCycles
    /\ \E i \in Slots : cyc[i].pc = "done" /\ cyc[i].outcome = "noop"

\* both queries of get_gas_price answered with numbers
GasAnswered(g) ==
    \E gwei \in Gweis, price \in Prices :
        /\ g.gas_data_list = Some(GasOracle(Some(gwei)))
        /\ g.token_data_list = Some(RefToken(Some(price)))

\* C24: in an execution of collect whose gas queries fail or answer without the
\* expected keys, gas_price is null and nothing else differs: no exception reaches
\* the handler, the lists tokens and report are what the loop made of the merged
\* data, and the snapshot of a non-empty tokens list is written with gas_price
\* null.
C24_GasFailureOnlyNullsGas ==
    \A i \in Slots :
        (cyc[i].pc \in {"persist", "report"} /\ ~GasAnswered(cyc[i].gas_data)) =>
            LET r == CollectLoop(cyc[i].merged_data, cyc[i].latest, config, << >>, << >>)
            IN  /\ cyc[i].gas_price = None
                /\ cyc[i].exc = {}
                /\ cyc[i].tokens = r.tokens
                /\ cyc[i].report = r.report
                /\ cyc[i].pc = "report" =>
                      IF cyc[i].tokens # << >>
                      THEN /\ cyc[i].appended = 1
                           /\ store = Append(cyc[i].before,
                                             [datetime |-> cyc[i].timestamp,
                                              gas_price |-> None,
                                              tokens |-> cyc[i].tokens])
                      ELSE /\ cyc[i].appended = 0
                           /\ store = cyc[i].before

C24_Witness ==
    \E i \in Slots :
        /\ cyc[i].pc = "report"
        /\ cyc[i].gas_data.gas_data_list = Some(<<[message |-> Some("NOTOK")]>>)
        /\ cyc[i].before # << >>
        /\ Len(cyc[i].tokens) = 2
        /\ Len(cyc[i].report) = 1
        /\ store[Len(store)].gas_price = None
        /\ store[Len(store)].tokens = cyc[i].tokens

\* C28: when the oracle answers FastGasPrice gwei and the reference token's query
\* answers price_usd price, get_gas_price returns gwei * 356190 * 1e-9 * price
\* rounded to the cent; for gwei 30 and price 2000 that is 21.37.
C28_GasPriceFormula ==
    gasOut # None =>
        \A gwei \in Gweis, price \in Prices :
            (/\ gasIn.gas_data_list = Some(GasOracle(Some(gwei)))
             /\ gasIn.token_data_list = Some(RefToken(Some(price)))) =>
                /\ gasOut[1] # None
                /\ Abs(gasOut[1][1] * 1000000 - gwei * price * 35619) <= 500000
                /\ (gwei = 30 /\ price = 2000) => gasOut[1] = Some(2137)

C28_Witness ==
    /\ gasIn = [gas_data_list |-> Some(GasOracle(Some(30))),
                token_data_list |-> Some(RefToken(Some(2000)))]
    /\ gasOut = Some(Some(GasPriceUsd))

\* r is what a read of the latest snapshot of db may return: nothing when db is
\* empty, else a snapshot of db that no snapshot of db is later than
LatestOf(db, r) ==
    IF db = << >> THEN r = None
    ELSE /\ r # None
         /\ \E k \in DOMAIN db : db[k] = r[1]
         /\ \A j \in DOMAIN db : db[j].datetime <= r[1].datetime

\* C25: every step of the program (of a cycle, of a bot command, a restart) keeps
\* every snapshot of the store in place and unchanged, adding at most one at the
\* end; a read of the latest snapshot, by a cycle or by the bot's info command,
\* returns the stored snapshot of greatest datetime, or nothing when the store is
\* empty.
C25_AppendOnlyLatestGreatest ==
    [][/\ Len(store') \in {Len(store), Len(store) + 1}
       /\ SubSeq(store', 1, Len(store)) = store
       /\ \A i \in Slots :
             (cyc[i].pc = "read" /\ cyc'[i].pc = "fetch") => LatestOf(store, cyc'[i].latest)
       /\ (bot' # bot /\ bot' # None /\ bot'[1].command = "info") => LatestOf(store, bot'[1].latest)
       /\ (bot' # bot /\ bot' # None /\ bot'[1].command = "gas") =>
             \/ store = << >> /\ bot'[1].gas_price = None
             \/ \E r \in {store[k] : k \in DOMAIN store} :
                   LatestOf(store, Some(r)) /\ bot'[1].gas_price = r.gas_price]_vars

C25_Witness ==
    /\ Len(store) = 3
    /\ main = "scheduled"
    /\ bot # None
    /\ bot[1].command = "info"
    /\ bot[1].latest = Some(store[3])
    /\ store[3].datetime > store[2].datetime
    /\ \E i \in Slots : cyc[i].pc = "done" /\ cyc[i].latest = Some(store[2])

C27_OneEntryPerName ==
    \A k \in DOMAIN store :
        \A m, n \in DOMAIN store[k].tokens :
            m # n => store[k].tokens[m].name # store[k].tokens[n].name

\* C29: an entry of a cycle's tokens, and so of the snapshot the cycle writes, has
\* the key last_pnl_percent exactly when the snapshot the cycle read has an entry
\* of the same name, and its value is then that entry's pnl_percent; when the store
\* was empty no entry has the key.
C29_LastPnlPercentIffPrior ==
    \A i \in Slots : Looped(i) =>
        /\ \A k \in DOMAIN cyc[i].tokens :
              LET e == cyc[i].tokens[k]
                  p == Prior(i, e.name)
              IN  /\ ("last_pnl_percent" \in DOMAIN e) <=> (p # None)
                  /\ p # None => e.last_pnl_percent = p[1].pnl_percent
        /\ \A w \in Written(i) : store[w].tokens = cyc[i].tokens

C29_Witness ==
    \E i \in Slots :
        /\ Looped(i)
        /\ Written(i) # {}
        /\ cyc[i].latest # None
        /\ \E k, m \in DOMAIN cyc[i].tokens :
              /\ "last_pnl_percent" \in DOMAIN cyc[i].tokens[k]
              /\ cyc[i].tokens[k].last_pnl_percent # cyc[i].tokens[k].pnl_percent
              /\ "last_pnl_percent" \notin DOMAIN cyc[i].tokens[m]

\* the entry of that name in the snapshot given to the loop, or None
PriorIn(name) ==
    IF loopIn.latest = None THEN None ELSE FindToken(loopIn.latest[1].tokens, name)

\* the report of the loop has the entry e (the same token at the same price)
Reported(e) ==
    \E r \in DOMAIN loopOut[1].report :
        /\ loopOut[1].report[r].name = e.name
        /\ loopOut[1].report[r].cur_price = e.cur_price

\* C30: for a token with an entry in the latest snapshot, the token is in the
\* report exactly when accumulated > report_max_lim or accumulated <
\* report_min_lim; at accumulated = report_max_lim or accumulated = report_min_lim
\* it is not, and the pnl_delta of its entry in tokens (the list persisted) is
\* accumulated.
C30_StrictThresholds ==
    loopOut # None =>
        \A k \in DOMAIN loopOut[1].tokens :
            LET e == loopOut[1].tokens[k]
                p == PriorIn(e.name)
            IN  p # None =>
                  LET accumulated == Accumulated(p[1], e.pnl_percent)
                  IN  /\ Reported(e) <=> (\/ accumulated > config.report_max_lim
                                           \/ accumulated < config.report_min_lim)
                      /\ accumulated \in {config.report_max_lim, config.report_min_lim} =>
                            /\ ~Reported(e)
                            /\ e.pnl_delta = accumulated

C30_Witness ==
    /\ loopOut # None
    /\ Len(loopOut[1].tokens) = 1
    /\ loopOut[1].tokens[1].name = "X"
    /\ PriorIn("X") # None
    /\ Accumulated(PriorIn("X")[1], loopOut[1].tokens[1].pnl_percent) = config.report_max_lim
    /\ loopOut[1].tokens[1].pnl_delta = 1000
    /\ loopOut[1].report = << >>

\* the lower limit reached exactly
C30_WitnessMin ==
    /\ loopOut # None
    /\ Len(loopOut[1].tokens) = 1
    /\ loopOut[1].tokens[1].name = "X"
    /\ PriorIn("X") # None
    /\ Accumulated(PriorIn("X")[1], loopOut[1].tokens[1].pnl_percent) = config.report_min_lim
    /\ loopOut[1].tokens[1].pnl_delta = -1000
    /\ loopOut[1].report = << >>

----------------------------------------------------------------------------
(* The specification of the per-chain requests of get_token_data (lines     *)
(* 118-146 of watcher_requests.py) as tasks of the event loop: the call      *)
(* builds one coroutine per chain (lines 123-129), asyncio.gather schedules  *)
(* them all (line 131), each ends when its response arrives, and the call    *)
(* goes on when the last one has ended; merge_data (line 105 of              *)
(* watcher_scheduler.py) takes what the call returned.                       *)

\* the results handed over in the order the tasks completed
GatheredAsCompleted(results, order) == [j \in DOMAIN order |-> results[order[j]][1]]

\* what 'await asyncio.gather(*tasks, return_exceptions=True)' evaluates to: the
\* result of each awaitable at the position the awaitable was passed at
Gathered(results, order) == [k \in DOMAIN results |-> results[k][1]]

\* the tasks gather schedules: one for every coroutine of the list tasks
Scheduled(chain_addr) == DOMAIN chain_addr

\* line 120 raises (see CollectFetch), or lines 123-131: the coroutines are
\* built and gather schedules them
GatherIssue ==
    /\ gather # << >>
    /\ gather.pc = "call"
    /\ \/ gather' = [gather EXCEPT !.pc = "returned",
                                   !.out = Some([raised |-> TRUE, value |-> << >>])]
       \/ gather' = [gather EXCEPT !.pc = "awaiting",
                                   !.running = Scheduled(gather.chain_addr)]
    /\ UNCHANGED <<cycleVars, twin, sendlog, pnlIn, pnlOut, joinIn, chainOut, joinOut, loopIn, loopOut,
                   fetchIn, fetchOut, req, gasIn, gasOut>>

\* the request of one running task ends: make_request returns or raises
TaskComplete ==
    /\ gather # << >>
    /\ gather.pc = "awaiting"
    /\ \E k \in gather.running :
          \E r \in TaskResults(gather.chain_addr[k].addresses) :
              gather' = [gather EXCEPT !.running = @ \ {k},
                                       !.results[k] = Some(r),
                                       !.order = Append(@, k)]
    /\ UNCHANGED <<cycleVars, twin, sendlog, pnlIn, pnlOut, joinIn, chainOut, joinOut, loopIn, loopOut,
                   fetchIn, fetchOut, req, gasIn, gasOut>>

\* every task has ended: gather returns and lines 132-143 build the list
GatherReturn ==
    /\ gather # << >>
    /\ gather.pc = "awaiting"
    /\ gather.running = {}
    /\ gather' = [gather EXCEPT
                     !.pc = "returned",
                     !.out = Some([raised |-> FALSE,
                                   value |-> get_token_data(gather.chain_addr,
                                                 Gathered(gather.results, gather.order))])]
    /\ UNCHANGED <<cycleVars, twin, sendlog, pnlIn, pnlOut, joinIn, chainOut, joinOut, loopIn, loopOut,
                   fetchIn, fetchOut, req, gasIn, gasOut>>

\* line 105 of watcher_scheduler.py: the join of what the call returned
GatherMerge ==
    /\ gather # << >>
    /\ gather.pc = "returned"
    /\ ~gather.out[1].raised
    /\ gather' = [gather EXCEPT !.pc = "merged",
                                !.merged = Some(merge_data(config, gather.out[1].value))]
    /\ UNCHANGED <<cycleVars, twin, sendlog, pnlIn, pnlOut, joinIn, chainOut, joinOut, loopIn, loopOut,
                   fetchIn, fetchOut, req, gasIn, gasOut>>

InitGather ==
    /\ CycleIdle(Holdings)
    /\ gather = [pc |-> "call",
                 chain_addr |-> merge_chain_addr([token |-> Holdings]),
                 running |-> {},
                 results |-> [k \in DOMAIN merge_chain_addr([token |-> Holdings]) |-> None],
                 order |-> << >>,
                 out |-> None,
                 merged |-> None]
    /\ PnlIdle /\ JoinIdle /\ LoopIdle /\ FetchIdle /\ RequestIdle /\ GasIdle /\ TwinIdle /\ SendIdle

NextGather == GatherIssue \/ TaskComplete \/ GatherReturn \/ GatherMerge

SpecGather == InitGather /\ [][NextGather]_vars

----------------------------------------------------------------------------
(* C31..C38 *)

RECURSIVE InChainOrder(_)
\* the payloads of the chains' results, chain after chain
InChainOrder(results) ==
    IF results = << >> THEN << >>
    ELSE DataOf(Head(results)[1]) \o InChainOrder(Tail(results))

\* C31: the per-chain requests of a call of get_token_data all run at once (no
\* request waits for another to end), the call returns, and the join starts,
\* only when every request has ended, and the list returned (hence the joined
\* entries) holds the chains' payloads in the order of the chains of the
\* mapping, whatever the order the requests ended in.
C31_GatherInChainOrder ==
    gather # << >> =>
        /\ gather.pc = "awaiting" =>
              gather.running = {k \in DOMAIN gather.results : gather.results[k] = None}
        /\ (gather.pc \in {"returned", "merged"} /\ ~gather.out[1].raised) =>
              /\ \A k \in DOMAIN gather.results : gather.results[k] # None
              /\ gather.out[1].value = InChainOrder(gather.results)
        /\ gather.merged # None =>
              /\ gather.out # None
              /\ gather.merged[1] = merge_data(config, InChainOrder(gather.results))

C31_Witness ==
    /\ gather # << >>
    /\ gather.pc = "merged"
    /\ gather.order = <<2, 1>>
    /\ Len(DataOf(gather.results[1][1])) = 2
    /\ Len(DataOf(gather.results[2][1])) = 1
    /\ Len(gather.merged[1]) = 3
    /\ gather.merged[1][1].name = "X"
    /\ gather.merged[1][2].name = "Y"
    /\ gather.merged[1][3].name = "Z"

\* the snapshot appended last to the store execution i started with
MostRecent(i) == cyc[i].before[Len(cyc[i].before)]

\* C32: a cycle that starts with a non-empty store takes its previous state from
\* the most recent snapshot alone: a token of that snapshot gets its
\* last_pnl_percent from it, and a token the snapshot lacks, whether or not an
\* older snapshot has an entry of it, is persisted as a token without a prior
\* entry is (no last_pnl_percent, pnl_delta = pnl_percent, not put in the report
\* by the threshold test).
C32_OnlyMostRecentSnapshot ==
    \A i \in Slots : (Looped(i) /\ cyc[i].before # << >>) =>
        /\ cyc[i].latest = Some(MostRecent(i))
        /\ \A k \in DOMAIN cyc[i].tokens :
              LET e == cyc[i].tokens[k]
                  p == FindToken(MostRecent(i).tokens, e.name)
              IN  IF p # None
                  THEN /\ "last_pnl_percent" \in DOMAIN e
                       /\ e.last_pnl_percent = p[1].pnl_percent
                       /\ e.pnl_delta \in {0, Accumulated(p[1], e.pnl_percent)}
                  ELSE /\ "last_pnl_percent" \notin DOMAIN e
                       /\ e.pnl_delta = e.pnl_percent
                       /\ e.name \notin Names(cyc[i].report)
        /\ \A w \in Written(i) : store[w].tokens = cyc[i].tokens

C32_Witness ==
    /\ Looped(1)
    /\ Written(1) # {}
    /\ Len(cyc[1].before) = 2
    /\ "X" \in Names(cyc[1].before[1].tokens)
    /\ FindToken(cyc[1].before[1].tokens, "X")[1].pnl_delta = -1000
    /\ Names(cyc[1].before[2].tokens) = {"Y"}
    /\ \E k \in DOMAIN cyc[1].tokens :
          /\ cyc[1].tokens[k].name = "X"
          /\ cyc[1].tokens[k].pnl_percent = -500
          /\ cyc[1].tokens[k].pnl_delta = -500
          /\ "last_pnl_percent" \notin DOMAIN cyc[1].tokens[k]

----------------------------------------------------------------------------
(* The cycle on one holding whose price moves around its buy price, started  *)
(* on an empty store or on the store an earlier run of the program left      *)

\* a holding bought at 1.0
TrackHoldings == << Holding("T", "eth", "0xt", Some(1000), Some(100)) >>

\* the store after one cycle of an earlier run, which found T at 0.95
EarlierStore ==
    RunCycle([token |-> TrackHoldings, report_min_lim |-> -1000, report_max_lim |-> 1000],
             << >>, 0, [a \in {"0xt"} |-> Some(950)],
             [gas_data_list |-> Some(<< >>), token_data_list |-> None]).store

InitTrack ==
    /\ config = [token |-> TrackHoldings, report_min_lim |-> -1000, report_max_lim |-> 1000]
    /\ stored = TrackHoldings
    /\ store \in {<< >>, EarlierStore}
    /\ clock = 0
    /\ main = "init"
    /\ cyc = [i \in Slots |-> IdleCycle]
    /\ started = 0
    /\ dropped = 0
    /\ bot = None
    /\ PnlIdle /\ JoinIdle /\ LoopIdle /\ FetchIdle /\ RequestIdle /\ GasIdle /\ TwinIdle /\ GatherIdle /\ SendIdle

SpecTrack == InitTrack /\ [][Next]_vars

\* the entry of T in the k-th snapshot of the store db
TrackOf(db, k) == FindToken(db[k].tokens, "T")[1]

\* T is in every snapshot of db from the r-th to the n-th
Present(db, r, n) == \A j \in r..n : FindToken(db[j].tokens, "T") # None

\* the k-th snapshot of db was written by a cycle that found no prior entry of T
ColdStart(db, k) == k = 1 \/ FindToken(db[k - 1].tokens, "T") = None

\* the k-th snapshot of db was written by a cycle in which T passed a threshold
Alerted(db, k) ==
    /\ k > 1
    /\ FindToken(db[k - 1].tokens, "T") # None
    /\ OverLimit(Accumulated(TrackOf(db, k - 1), TrackOf(db, k).pnl_percent), config)

\* C33: the cycles being serialized and each reading the snapshot before it, the
\* snapshot a cycle writes tells whether the cycle alerted (T is in its report
\* by the threshold test), and for T in every snapshot from the r-th to the
\* n-th with no alert after the r-th: if the r-th was an alert, pnl_delta of the
\* n-th is pnl_percent(n) - pnl_percent(r); if the r-th was a cold start,
\* pnl_delta of the n-th is pnl_percent(n).
C33_Telescoping ==
    /\ \A r, n \in DOMAIN store :
          (r <= n /\ Present(store, r, n) /\ \A j \in (r + 1)..n : ~Alerted(store, j)) =>
              /\ Alerted(store, r) =>
                    TrackOf(store, n).pnl_delta
                        = TrackOf(store, n).pnl_percent - TrackOf(store, r).pnl_percent
              /\ ColdStart(store, r) =>
                    TrackOf(store, n).pnl_delta = TrackOf(store, n).pnl_percent
    /\ (Looped(1) /\ Written(1) # {} /\ cyc[1].latest # None) =>
          ("T" \in Names(cyc[1].report)) <=> Alerted(store, Len(store))

\* an alert, then two cycles without one
C33_Witness ==
    /\ Len(store) = 4
    /\ Present(store, 1, 4)
    /\ Alerted(store, 2)
    /\ ~Alerted(store, 3)
    /\ ~Alerted(store, 4)
    /\ TrackOf(store, 3).pnl_percent # TrackOf(store, 2).pnl_percent
    /\ TrackOf(store, 4).pnl_percent # TrackOf(store, 3).pnl_percent
    /\ TrackOf(store, 4).pnl_delta # 0

\* a cold start, then two cycles without an alert
C33_WitnessCold ==
    /\ Len(store) = 3
    /\ Present(store, 1, 3)
    /\ ~Alerted(store, 2)
    /\ ~Alerted(store, 3)
    /\ TrackOf(store, 2).pnl_percent # TrackOf(store, 1).pnl_percent
    /\ TrackOf(store, 3).pnl_percent # TrackOf(store, 2).pnl_percent

\* T is in the report of the cycle that wrote the k-th snapshot of db: the
\* cycle started on an empty store, or T passed a threshold in it
ReportedIn(db, k) == k = 1 \/ Alerted(db, k)

\* C34: a cycle that finds T at the pnl_percent of the snapshot before it, a
\* snapshot written by a cycle that reported T (on a cold start or by a
\* threshold), does not report T.
C34_NoRepeatedReport ==
    ( /\ Looped(1)
      /\ cyc[1].before # << >>
      /\ cyc[1].latest = Some(MostRecent(1))
      /\ Present(cyc[1].before, Len(cyc[1].before), Len(cyc[1].before))
      /\ ReportedIn(cyc[1].before, Len(cyc[1].before))
      /\ \E k \in DOMAIN cyc[1].tokens :
            /\ cyc[1].tokens[k].name = "T"
            /\ cyc[1].tokens[k].pnl_percent
                   = TrackOf(cyc[1].before, Len(cyc[1].before)).pnl_percent )
        => "T" \notin Names(cyc[1].report)

\* the case that holds: the cycle before alerted by a threshold
C34_AfterThresholdAlert ==
    ( /\ Looped(1)
      /\ cyc[1].before # << >>
      /\ cyc[1].latest = Some(MostRecent(1))
      /\ Present(cyc[1].before, Len(cyc[1].before), Len(cyc[1].before))
      /\ Alerted(cyc[1].before, Len(cyc[1].before))
      /\ \E k \in DOMAIN cyc[1].tokens :
            /\ cyc[1].tokens[k].name = "T"
            /\ cyc[1].tokens[k].pnl_percent
                   = TrackOf(cyc[1].before, Len(cyc[1].before)).pnl_percent )
        => "T" \notin Names(cyc[1].report)

\* pnl_percent as a ratio of the costs, in hundredths of a percent
Ratio(cur_cost, buy_cost) == RoundDiv(cur_cost * 10000, buy_cost)

\* C35: for a token with a prior entry, the delta of the cycle
\* (pnl_percent - last_pnl_percent) is the change of the cost ratio between the
\* two cycles, also when the ratio crosses 100 between them.
C35_DeltaIsRatioChange ==
    (Looped(1) /\ cyc[1].latest # None) =>
        \A k \in DOMAIN cyc[1].tokens :
            LET e == cyc[1].tokens[k]
                p == Prior(1, e.name)
            IN  p # None =>
                    e.pnl_percent - p[1].pnl_percent
                        = Ratio(e.cur_cost, e.buy_cost) - Ratio(p[1].cur_cost, p[1].buy_cost)

\* the case that holds: the two ratios on the same side of 100
C35_SameSide ==
    (Looped(1) /\ cyc[1].latest # None) =>
        \A k \in DOMAIN cyc[1].tokens :
            LET e == cyc[1].tokens[k]
                p == Prior(1, e.name)
            IN  ( /\ p # None
                  /\ (Ratio(e.cur_cost, e.buy_cost) < 10000)
                         <=> (Ratio(p[1].cur_cost, p[1].buy_cost) < 10000) ) =>
                    e.pnl_percent - p[1].pnl_percent
                        = Ratio(e.cur_cost, e.buy_cost) - Ratio(p[1].cur_cost, p[1].buy_cost)

----------------------------------------------------------------------------
(* The cycle on the holding T with a record of what the execution of collect *)
(* that returned last left behind: the job has one instance at a time, so    *)
(* slot 1 runs every execution.                                              *)

\* the record is that of the execution that returned last
Noted == cyc[1].pc = "done" => sendlog.noted = started

\* collect has returned (lines 193-197): the record takes the report whose
\* dispatch raised, or the empty list
Observe ==
    /\ cyc[1].pc = "done"
    /\ sendlog.noted # started
    /\ sendlog' = [noted |-> started,
                   lost |-> IF "report" \in cyc[1].exc THEN cyc[1].report ELSE << >>]
    /\ UNCHANGED <<cycleVars, twin, gather, pnlIn, pnlOut, joinIn, chainOut, joinOut, loopIn, loopOut,
                   fetchIn, fetchOut, req, gasIn, gasOut>>

InitSend ==
    /\ CycleIdle(TrackHoldings)
    /\ sendlog = [noted |-> 0, lost |-> << >>]
    /\ PnlIdle /\ JoinIdle /\ LoopIdle /\ FetchIdle /\ RequestIdle /\ GasIdle /\ TwinIdle /\ GatherIdle

NextSend == (Noted /\ Next) \/ Observe

SpecSend == InitSend /\ [][NextSend]_vars

\* the entry of the report was put there by the threshold test (line 150): the
\* cold start of lines 164-166 sets no last_pnl_percent
ByThreshold(e) == "last_pnl_percent" \in DOMAIN e

----------------------------------------------------------------------------
(* The cycle with the clock as the program finds it: two executions of       *)
(* collect can start within one second, and get_local_time returns 0 when    *)
(* reading the clock raises (lines 82-86 of watcher_utility.py)              *)

\* Util.get_local_time at the second now: the second, or 0 from its handler
get_local_time(now) == {now, 0}

\* find_one(sort=[("datetime", -1)]) on a store that can hold several snapshots
\* of the greatest datetime: the server returns one of them, the sort does not
\* say which
LatestEntries(db) ==
    IF db = << >> THEN {None}
    ELSE {Some(db[k]) : k \in {k \in DOMAIN db :
                                  \A j \in DOMAIN db : db[j].datetime <= db[k].datetime}}

\* lines 91-101 (as CollectRead) at a second that is the second of the last
\* start or the next one
CollectReadAt(i) ==
    /\ cyc[i].pc = "read"
    /\ UNCHANGED <<config, store, main, started, dropped, stored, bot, callVars>>
    /\ IF NoHoldings(config)
       THEN /\ cyc' = [cyc EXCEPT ![i] = Return(@, "noop", {})]
            /\ UNCHANGED clock
       ELSE /\ clock' \in {clock, clock + 1}
            /\ \E timestamp \in get_local_time(clock') :
                  \/ \E latest \in LatestEntries(store) :
                        cyc' = [cyc EXCEPT ![i] = Advance([@ EXCEPT !.timestamp = timestamp,
                                                                    !.read = TRUE,
                                                                    !.latest = latest])]
                  \/ cyc' = [cyc EXCEPT ![i] = Return([@ EXCEPT !.timestamp = timestamp,
                                                                !.read = TRUE],
                                                      "aborted", {"read"})]

\* the program starts with the holding Y stored, at second 1
InitClock ==
    /\ config = [token |-> SubSeq(Holdings, 2, 2), report_min_lim |-> -1000,
                 report_max_lim |-> 1000]
    /\ stored = config.token
    /\ store = << >>
    /\ clock = 1
    /\ main = "init"
    /\ cyc = [i \in Slots |-> IdleCycle]
    /\ started = 0
    /\ dropped = 0
    /\ bot = None
    /\ PnlIdle /\ JoinIdle /\ LoopIdle /\ FetchIdle /\ RequestIdle /\ GasIdle /\ TwinIdle
    /\ GatherIdle /\ SendIdle

NextClock ==
    \/ StartupCollect
    \/ StartScheduler
    \/ TriggerRun
    \/ TriggerSkip
    \/ \E i \in Slots : CollectReadAt(i)
    \/ \E i \in Slots : CollectFetch(i)
    \/ \E i \in Slots : CollectGas(i)
    \/ \E i \in Slots : CollectPersist(i)
    \/ \E i \in Slots : CollectReport(i)

SpecClock == InitClock /\ [][NextClock]_vars

\* C37: the snapshot an execution reads is the one appended last to the store it
\* started with (the snapshot of the most recent earlier execution that
\* persisted one), also when executions start within the same second and when
\* get_local_time returns 0.
C37_LatestIsLastAppended ==
    \A i \in Slots :
        (cyc[i].read /\ cyc[i].before # << >> /\ "read" \notin cyc[i].exc) =>
            cyc[i].latest = Some(MostRecent(i))

\* the case that holds: the datetimes of the store the execution started with
\* strictly increase
C37_WhenTimestampsIncrease ==
    \A i \in Slots :
        ( /\ cyc[i].read /\ cyc[i].before # << >> /\ "read" \notin cyc[i].exc
          /\ \A j, k \in DOMAIN cyc[i].before :
                j < k => cyc[i].before[j].datetime < cyc[i].before[k].datetime ) =>
            cyc[i].latest = Some(MostRecent(i))

----------------------------------------------------------------------------
(* The cycle on a holding stored without a name *)

\* the stored item has no key 'name'
NamelessHoldings == << Holding(NoName, "eth", "0xt", Some(1000), Some(100)) >>

InitNameless ==
    /\ CycleIdle(NamelessHoldings)
    /\ PnlIdle /\ JoinIdle /\ LoopIdle /\ FetchIdle /\ RequestIdle /\ GasIdle /\ TwinIdle
    /\ GatherIdle /\ SendIdle

SpecNameless == InitNameless /\ [][Next]_vars

\* C38: in every execution each item of the report has an entry of its name and
\* pnl_percent in tokens, the list the execution persists, and an execution that
\* persists no snapshot sends no report message.
C38_ReportCoveredBySnapshot ==
    \A i \in Slots : Looped(i) =>
        /\ \A r \in DOMAIN cyc[i].report :
              \E k \in DOMAIN cyc[i].tokens :
                  /\ cyc[i].tokens[k].name = cyc[i].report[r].name
                  /\ cyc[i].tokens[k].pnl_percent = cyc[i].report[r].pnl_percent
        /\ \A w \in Written(i) : store[w].tokens = cyc[i].tokens
        /\ cyc[i].sent > 0 => cyc[i].appended = 1

----------------------------------------------------------------------------
(* The cycle on the two holdings of one chain *)

\* the program starts with the holdings X and Y stored
InitPair ==
    /\ CycleIdle(SubSeq(Holdings, 1, 2))
    /\ PnlIdle /\ JoinIdle /\ LoopIdle /\ FetchIdle /\ RequestIdle /\ GasIdle /\ TwinIdle
    /\ GatherIdle /\ SendIdle

SpecPair == InitPair /\ [][Next]_vars

====
